---------------------------- MODULE Spec2Model ----------------------------
(***************************************************************************)
(* A model of go-libconfig: the integer-literal conversion, the value      *)
(* model, the recursive-descent parser with @include handling and the      *)
(* dot-path lookup API.                                                    *)
(*                                                                         *)
(* Go strings are sequences of one-character strings (<<"4","2","L">>).    *)
(* Go's int64 is a sign and a magnitude of four 16-bit limbs, least        *)
(* significant first, so that the whole 64-bit range is representable.     *)
(***************************************************************************)
EXTENDS Integers, Sequences, FiniteSets, TLC

VARIABLES
    uintSize,   \* width of Go's uint/int on the build: 32 or 64
    literal,    \* argument of the last parseIntegerLiteral call
    litResult,  \* what that call returned: [called, ok, val]
    fs,         \* the file system: path -> [tokens, complete, readable]
    parsers,    \* the call stack of Parser instances, the running one last
    ret,        \* what the top-level parse call returned: [done, config, err]
    config,     \* the Root of the Config the lookups are made on
    lookup,     \* the last lookup call: its function, path and results
    again,      \* the same call made a second time, and its results
    reader,     \* the io.Reader handed to the lexer: [text, fails]
    lexer,      \* the Lexer: its fields and the position of its tokenize
    got         \* the last NextToken or PeekToken call: [fn, token]

intVars == <<literal, litResult>>

parseVars == <<fs, parsers, ret>>

lookupVars == <<config, lookup, again>>

lexVars == <<reader, lexer, got>>

vars == <<uintSize, literal, litResult, fs, parsers, ret, config, lookup,
          again, reader, lexer, got>>

(***************************************************************************)
(* 64-bit integers                                                         *)
(***************************************************************************)
Base == 2^16

Limbs == 1..4

Zero4 == <<0, 0, 0, 0>>

\* the int64 zero value
I0 == [neg |-> FALSE, mag |-> Zero4]

\* a small non-negative number as an int64
Small(n) == [neg |-> FALSE, mag |-> <<n % Base, n \div Base, 0, 0>>]

\* a[i..4] < b[i..4] read as numbers, most significant limb last
RECURSIVE LessFrom(_, _, _)
LessFrom(a, b, i) ==
    IF i = 0 THEN FALSE
    ELSE IF a[i] # b[i] THEN a[i] < b[i]
    ELSE LessFrom(a, b, i - 1)

\* unsigned comparison of two magnitudes
MagLess(a, b) == LessFrom(a, b, 4)

\* signed comparison x < y of two int64
Int64Less(x, y) ==
    IF x.neg /\ ~y.neg THEN TRUE
    ELSE IF ~x.neg /\ y.neg THEN FALSE
    ELSE IF x.neg THEN MagLess(y.mag, x.mag)
    ELSE MagLess(x.mag, y.mag)

\* 2^63 as a magnitude
Pow63 == <<0, 0, 0, 32768>>

MaxInt64 == [neg |-> FALSE, mag |-> <<65535, 65535, 65535, 32767>>]

MinInt64 == [neg |-> TRUE, mag |-> Pow63]

MaxInt32 == [neg |-> FALSE, mag |-> <<65535, 32767, 0, 0>>]

MinInt32 == [neg |-> TRUE, mag |-> <<0, 32768, 0, 0>>]

\* x lies in [-2147483648, 2147483647]
FitsInt32(x) == ~Int64Less(MaxInt32, x) /\ ~Int64Less(x, MinInt32)

\* the Go expression int64(^uint(0)>>1): the largest value of the build's int
MaxIntOfBuild(size) == IF size = 64 THEN MaxInt64 ELSE MaxInt32

\* the Go expression int64(-1<<(64-1)), the same on every build
MinInt64Expr == MinInt64

\* m*b + d on a magnitude, with the carry out of the top limb
MulAdd(m, b, d) ==
    LET t1 == m[1] * b + d
        t2 == m[2] * b + (t1 \div Base)
        t3 == m[3] * b + (t2 \div Base)
        t4 == m[4] * b + (t3 \div Base)
    IN  [mag |-> <<t1 % Base, t2 % Base, t3 % Base, t4 % Base>>,
         carry |-> t4 \div Base]

\* the Go conversion int(v) of an int64: the identity where int has 64 bits,
\* the low 32 bits read as two's complement where it has 32
IntOf(v, size) ==
    IF size = 64 THEN v
    ELSE LET l0 == v.mag[1]
             l1 == v.mag[2]
             \* low 32 bits of the two's complement pattern
             u == IF ~v.neg THEN <<l0, l1>>
                  ELSE IF l0 = 0 THEN <<0, (Base - l1) % Base>>
                  ELSE <<Base - l0, Base - 1 - l1>>
         IN  IF u[2] < 32768
             THEN [neg |-> FALSE, mag |-> <<u[1], u[2], 0, 0>>]
             ELSE [neg |-> TRUE,
                   mag |-> IF u[1] = 0 THEN <<0, Base - u[2], 0, 0>>
                           ELSE <<Base - u[1], Base - 1 - u[2], 0, 0>>]

(***************************************************************************)
(* strings                                                                 *)
(***************************************************************************)
HasSuffix(s, c) == Len(s) > 0 /\ s[Len(s)] = c

\* strings.HasPrefix
HasPrefix(s, p) == Len(s) >= Len(p) /\ SubSeq(s, 1, Len(p)) = p

\* the printable ASCII characters, Ascii[b - 31] being the one of code b;
\* the grave accent, which a string of this module cannot hold, is the
\* string that spells its code
Ascii ==
    <<
       " ", "!", "\"", "#", "$", "%", "&", "'", "(", ")", "*", "+",
       ",", "-", ".", "/", "0", "1", "2", "3", "4", "5", "6", "7",
       "8", "9", ":", ";", "<", "=", ">", "?", "@", "A", "B", "C",
       "D", "E", "F", "G", "H", "I", "J", "K", "L", "M", "N", "O",
       "P", "Q", "R", "S", "T", "U", "V", "W", "X", "Y", "Z", "[",
       "\\", "]", "^", "_", "<<96>>", "a", "b", "c", "d", "e", "f", "g",
       "h", "i", "j", "k", "l", "m", "n", "o", "p", "q", "r", "s",
       "t", "u", "v", "w", "x", "y", "z", "{", "|", "}", "~"
    >>

\* the one-character string of the model for the byte b; a byte that has
\* neither a printable character nor an escape is the string that spells
\* its code
CharOf(b) ==
    IF b \in 32..126 THEN Ascii[b - 31]
    ELSE IF b = 9 THEN "\t"
    ELSE IF b = 10 THEN "\n"
    ELSE IF b = 12 THEN "\f"
    ELSE IF b = 13 THEN "\r"
    ELSE ToString(<<b>>)

\* the code of each character
Ord ==
    [c \in {CharOf(b) : b \in 0..255} |->
        CHOOSE b \in 0..255 : CharOf(b) = c]

Code(c) == Ord[c]

\* a Go string of the model as bytes, and bytes as a Go string of the model
Bytes(s) == [i \in DOMAIN s |-> Code(s[i])]

Chars(bs) == [i \in DOMAIN bs |-> CharOf(bs[i])]

\* the UTF-8 encodings of the runes unicode.IsSpace holds of: \t \n \v \f
\* \r, the blank, U+0085, U+00A0, U+1680, U+2000..U+200A, U+2028, U+2029,
\* U+202F, U+205F and U+3000
WhiteSpace ==
    {Chars(<<b>>) : b \in {9, 10, 11, 12, 13, 32}}
        \cup {Chars(<<194, 133>>), Chars(<<194, 160>>), Chars(<<225, 154, 128>>)}
        \cup {Chars(<<226, 128, b>>) : b \in (128..138) \cup {168, 169, 175}}
        \cup {Chars(<<226, 129, 159>>), Chars(<<227, 128, 128>>)}

HasSuffixSeq(s, w) ==
    Len(s) >= Len(w) /\ SubSeq(s, Len(s) - Len(w) + 1, Len(s)) = w

\* strings.TrimLeftFunc(s, unicode.IsSpace)
RECURSIVE TrimLeft(_)
TrimLeft(s) ==
    IF \E w \in WhiteSpace : HasPrefix(s, w)
    THEN LET w == CHOOSE w \in WhiteSpace : HasPrefix(s, w)
         IN  TrimLeft(SubSeq(s, Len(w) + 1, Len(s)))
    ELSE s

\* strings.TrimRightFunc(s, unicode.IsSpace)
RECURSIVE TrimRight(_)
TrimRight(s) ==
    IF \E w \in WhiteSpace : HasSuffixSeq(s, w)
    THEN LET w == CHOOSE w \in WhiteSpace : HasSuffixSeq(s, w)
         IN  TrimRight(SubSeq(s, 1, Len(s) - Len(w)))
    ELSE s

TrimSpace(s) == TrimRight(TrimLeft(s))

DecDigits == <<"0", "1", "2", "3", "4", "5", "6", "7", "8", "9">>

LowerHex == <<"a", "b", "c", "d", "e", "f">>

UpperHex == <<"A", "B", "C", "D", "E", "F">>

IsDigit(c) == \E i \in 1..10 : DecDigits[i] = c

\* DigitVal that knows the hexadecimal digits in lower case only
DigitValLowerCase(c) ==
    IF \E i \in 1..10 : DecDigits[i] = c
    THEN (CHOOSE i \in 1..10 : DecDigits[i] = c) - 1
    ELSE IF \E i \in 1..6 : LowerHex[i] = c
    THEN (CHOOSE i \in 1..6 : LowerHex[i] = c) + 9
    ELSE 99

\* the value of a digit character, 99 for a character that is no digit
DigitVal(c) ==
    IF \E i \in 1..10 : DecDigits[i] = c
    THEN (CHOOSE i \in 1..10 : DecDigits[i] = c) - 1
    ELSE IF \E i \in 1..6 : LowerHex[i] = c
    THEN (CHOOSE i \in 1..6 : LowerHex[i] = c) + 9
    ELSE IF \E i \in 1..6 : UpperHex[i] = c
    THEN (CHOOSE i \in 1..6 : UpperHex[i] = c) + 9
    ELSE 99

(***************************************************************************)
(* strconv.ParseInt(s, base, 64)                                           *)
(***************************************************************************)
\* strconv.ParseUint on the digits s[i..]: acc is the number read so far;
\* err is "syntax" for a character that is no digit of the base and "range"
\* when the number passes 2^64-1
RECURSIVE ParseUintFrom(_, _, _, _)
ParseUintFrom(s, i, base, acc) ==
    IF i > Len(s) THEN [err |-> "", mag |-> acc]
    ELSE LET d == DigitVal(s[i])
         IN  IF d >= base THEN [err |-> "syntax", mag |-> Zero4]
             ELSE LET r == MulAdd(acc, base, d)
                  IN  IF r.carry > 0
                      THEN [err |-> "range", mag |-> Zero4]
                      ELSE ParseUintFrom(s, i + 1, base, r.mag)

ParseUint(s, base) ==
    IF Len(s) = 0 THEN [err |-> "syntax", mag |-> Zero4]
    ELSE ParseUintFrom(s, 1, base, Zero4)

ParseInt(s, base) ==
    IF Len(s) = 0 THEN [err |-> "syntax", val |-> I0]
    ELSE LET neg  == s[1] = "-"
             body == IF s[1] = "+" \/ s[1] = "-" THEN Tail(s) ELSE s
             un   == ParseUint(body, base)
         IN  IF un.err # "" THEN [err |-> un.err, val |-> I0]
             ELSE IF ~neg /\ ~MagLess(un.mag, Pow63)
             THEN [err |-> "range", val |-> I0]
             ELSE IF neg /\ MagLess(Pow63, un.mag)
             THEN [err |-> "range", val |-> I0]
             ELSE [err |-> "",
                   val |-> [neg |-> neg /\ un.mag # Zero4, mag |-> un.mag]]

(***************************************************************************)
(* the value model                                                         *)
(***************************************************************************)
TypeInt == "int"

TypeInt64 == "int64"

TypeFloat == "float"

TypeBool == "bool"

TypeString == "string"

TypeArray == "array"

TypeGroup == "group"

TypeList == "list"

\* a float64.  A finite one is mant * 2^exp, with the sign apart: mant is a
\* magnitude below 2^53 that is odd, or zero with exp 0.  The infinities and
\* NaN have their class
Finite(neg, mant, exp) ==
    [class |-> "finite", neg |-> neg, mant |-> mant, exp |-> exp]

Inf(neg) == [class |-> "inf", neg |-> neg, mant |-> Zero4, exp |-> 0]

NaN == [class |-> "nan", neg |-> FALSE, mant |-> Zero4, exp |-> 0]

\* the float64 zero value
F0 == Finite(FALSE, Zero4, 0)

\* the zero Value struct; a nil slice and a nil map are both <<>>
Value == [ArrayVal |-> <<>>, ListVal |-> <<>>, StrVal |-> <<>>,
          GroupVal |-> <<>>, IntVal |-> I0, Int64Val |-> I0,
          FloatVal |-> F0, Type |-> TypeInt, BoolVal |-> FALSE]

NewIntValue(val) == [Value EXCEPT !.Type = TypeInt, !.IntVal = val]

NewInt64Value(val) == [Value EXCEPT !.Type = TypeInt64, !.Int64Val = val]

NewFloatValue(val) == [Value EXCEPT !.Type = TypeFloat, !.FloatVal = val]

NewBoolValue(val) == [Value EXCEPT !.Type = TypeBool, !.BoolVal = val]

NewStringValue(val) == [Value EXCEPT !.Type = TypeString, !.StrVal = val]

NewArrayValue(vals) == [Value EXCEPT !.Type = TypeArray, !.ArrayVal = vals]

NewGroupValue(vals) == [Value EXCEPT !.Type = TypeGroup, !.GroupVal = vals]

NewListValue(vals) == [Value EXCEPT !.Type = TypeList, !.ListVal = vals]

\* the Root of NewConfig(): an empty group
NewConfig == [Value EXCEPT !.Type = TypeGroup, !.GroupVal = <<>>]

(***************************************************************************)
(* parseIntegerLiteral                                                     *)
(***************************************************************************)
\* the widening test of parseIntegerLiteral and LookupInt:
\* val > int64(^uint(0)>>1) || val < int64(-1<<(64-1))
OutsideIntRange(val, size) ==
    Int64Less(MaxIntOfBuild(size), val) \/ Int64Less(val, MinInt64Expr)

\* lines 265-268: the literal ends in the suffix of a long integer
IsLong(s) == HasSuffix(s, "L") \/ HasSuffix(s, "l")

\* lines 274-291: the base of the prefix, and strconv.ParseInt on the rest
ParseBased(s) ==
    IF HasPrefix(s, <<"0", "x">>) \/ HasPrefix(s, <<"0", "X">>)
    THEN ParseInt(SubSeq(s, 3, Len(s)), 16)
    ELSE IF HasPrefix(s, <<"0", "b">>) \/ HasPrefix(s, <<"0", "B">>)
    THEN ParseInt(SubSeq(s, 3, Len(s)), 2)
    ELSE IF \/ HasPrefix(s, <<"0", "o">>) \/ HasPrefix(s, <<"0", "O">>)
            \/ HasPrefix(s, <<"0", "q">>) \/ HasPrefix(s, <<"0", "Q">>)
    THEN ParseInt(SubSeq(s, 3, Len(s)), 8)
    ELSE ParseInt(s, 10)

\* lines 292-299: the Value of the number r that ParseInt returned
IntegerValue(r, isLong, size) ==
    IF r.err # "" THEN [ok |-> FALSE, val |-> Value]
    ELSE IF isLong \/ OutsideIntRange(r.val, size)
    THEN [ok |-> TRUE, val |-> NewInt64Value(r.val)]
    ELSE [ok |-> TRUE, val |-> NewIntValue(IntOf(r.val, size))]

\* lines 264-299 on the trimmed literal s
ParseTrimmed(s, isLong, size) ==
    IntegerValue(ParseBased(IF isLong THEN SubSeq(s, 1, Len(s) - 1) ELSE s),
                 isLong, size)

\* ParseTrimmed with the suffix stripped but not made to widen
ParseTrimmedBySize(s, isLong, size) ==
    IntegerValue(ParseBased(IF isLong THEN SubSeq(s, 1, Len(s) - 1) ELSE s),
                 FALSE, size)

ParseSuffixedBySize(s, size) == ParseTrimmedBySize(s, IsLong(s), size)

ParseSuffixed(s, size) == ParseTrimmed(s, IsLong(s), size)

\* parseIntegerLiteral with the suffix stripped but not made to widen
parseIntegerLiteralBySize(str, size) == ParseSuffixedBySize(TrimSpace(str), size)

parseIntegerLiteral(str, size) == ParseSuffixed(TrimSpace(str), size)

(***************************************************************************)
(* natural numbers of any size, for the conversion of a float literal: the *)
(* limbs of base 2^16, least significant first, the last one not zero.     *)
(* The operators on the limbs are written without recursion.               *)
(***************************************************************************)
Max(a, b) == IF a > b THEN a ELSE b

\* limb i of a, 0 outside of it
Limb(a, i) == IF i \in DOMAIN a THEN a[i] ELSE 0

\* a without the zero limbs at its end
BigTrim(a) ==
    LET used == {i \in DOMAIN a : a[i] # 0}
    IN  IF used = {} THEN <<>>
        ELSE SubSeq(a, 1, CHOOSE i \in used : \A j \in used : j <= i)

\* the number of the columns cols, each below 2 * Base - 1: a carry leaves
\* column i when a column at or below i makes one and the columns between
\* hand it on
Carried(cols) ==
    LET carry(i) == \E j \in 1..i :
                        /\ cols[j] >= Base
                        /\ \A k \in (j + 1)..i : cols[k] >= Base - 1
    IN  BigTrim([i \in 1..(Len(cols) + 1) |->
                    (Limb(cols, i) + (IF carry(i - 1) THEN 1 ELSE 0)) % Base])

\* a * c + k for c up to 2^15 and k below 2^15
BigMulAdd(a, c, k) ==
    Carried([i \in 1..(Len(a) + 1) |->
                ((Limb(a, i) * c) % Base) + ((Limb(a, i - 1) * c) \div Base)
                    + (IF i = 1 THEN k ELSE 0)])

\* a * 2^n
BigShl(a, n) ==
    IF a = <<>> THEN <<>>
    ELSE [i \in 1..(n \div 16) |-> 0] \o BigMulAdd(a, 2^(n % 16), 0)

\* a \div 2^n
BigShr(a, n) ==
    LET w == n \div 16
        b == n % 16
    IN  BigTrim([i \in 1..Max(Len(a) - w, 0) |->
                    (a[i + w] \div 2^b) + (Limb(a, i + w + 1) % 2^b) * 2^(16 - b)])

\* a < b
BigLess(a, b) ==
    \/ Len(a) < Len(b)
    \/ /\ Len(a) = Len(b)
       /\ \E i \in DOMAIN a :
            /\ a[i] < b[i]
            /\ \A k \in (i + 1)..Len(a) : a[k] = b[k]

\* a - b where b <= a: a column at or below i borrows and the columns
\* between hand the borrow on
BigSub(a, b) ==
    LET borrow(i) == \E j \in 1..i :
                        /\ a[j] < Limb(b, j)
                        /\ \A k \in (j + 1)..i : a[k] <= Limb(b, k)
    IN  BigTrim([i \in DOMAIN a |->
                    (a[i] - Limb(b, i) - (IF borrow(i - 1) THEN 1 ELSE 0) + Base)
                        % Base])

\* the number of bits of a limb, and of a number
LimbBits(x) == CHOOSE n \in 0..16 : x < 2^n /\ (n = 0 \/ x >= 2^(n - 1))

BigBits(a) ==
    IF a = <<>> THEN 0 ELSE 16 * (Len(a) - 1) + LimbBits(a[Len(a)])

\* the number of zero bits at the low end of a # <<>>
LowZeros(a) ==
    LET i == CHOOSE i \in DOMAIN a : a[i] # 0 /\ \A j \in 1..(i - 1) : a[j] = 0
        z == CHOOSE z \in 0..15 : a[i] % 2^z = 0 /\ a[i] % 2^(z + 1) # 0
    IN  16 * (i - 1) + z

\* the number written in base 10 or 16 by the digits st.ds after the
\* number st.acc, three digits at a time
RECURSIVE BigOfDigits(_, _)
BigOfDigits(st, base) ==
    LET ds == st.ds
    IN  IF ds = <<>> THEN st.acc
        ELSE IF Len(ds) >= 3
        THEN BigOfDigits(
                [ds |-> SubSeq(ds, 4, Len(ds)),
                 acc |-> BigMulAdd(st.acc, base * base * base,
                                   (ds[1] * base + ds[2]) * base + ds[3])],
                base)
        ELSE BigOfDigits([ds |-> Tail(ds),
                          acc |-> BigMulAdd(st.acc, base, ds[1])], base)

\* a * 10^n, sixteen digits at a time
Mul10000(a) == BigMulAdd(a, 10000, 0)

RECURSIVE BigMulPow10(_, _)
BigMulPow10(a, n) ==
    IF n = 0 \/ a = <<>> THEN a
    ELSE IF n >= 16
    THEN BigMulPow10(Mul10000(Mul10000(Mul10000(Mul10000(a)))), n - 16)
    ELSE BigMulPow10(BigMulAdd(a, 10, 0), n - 1)

\* one bit of a digit of the quotient: when st.r is not less than t, t is
\* taken from it and bit is added to the digit st.d
QuotientBit(st, t, bit) ==
    IF BigLess(st.r, t) THEN st
    ELSE [st EXCEPT !.r = BigSub(st.r, t), !.d = @ + bit]

\* the next digit of base 16 of the quotient of st.r by st.t.t1, where
\* st.r < 16 * t1 and t2, t4 and t8 are the multiples of t1
QuotientDigit(st) ==
    QuotientBit(QuotientBit(QuotientBit(QuotientBit(st, st.t.t8, 8),
                                        st.t.t4, 4),
                            st.t.t2, 2),
                st.t.t1, 1)

\* the digit is added to st.q, and st.r moves on to the place of the next
QuotientShift(st) ==
    [st EXCEPT !.q = BigMulAdd(st.q, 16, st.d), !.r = BigMulAdd(st.r, 16, 0),
               !.d = 0, !.i = @ - 1]

\* st.i digits of base 16 of the quotient of st.r by st.t.t1, added to
\* st.q; st.r ends as 16 times what is left under the last digit
RECURSIVE Quotient(_)
Quotient(st) ==
    IF st.i = 0 THEN st ELSE Quotient(QuotientShift(QuotientDigit(st)))

\* t1 and its multiples
Multiples(t1) ==
    [t1 |-> t1, t2 |-> BigMulAdd(t1, 2, 0), t4 |-> BigMulAdd(t1, 4, 0),
     t8 |-> BigMulAdd(t1, 8, 0)]

(***************************************************************************)
(* strconv.ParseFloat(s, 64).  The float64 it returns is the one nearest   *)
(* to the number the literal writes, the even one of two that are equally  *)
(* near; a number that rounds past the largest float64 gives an infinity   *)
(* and ErrRange.                                                           *)
(***************************************************************************)
FloatRange(neg) == [err |-> "range", val |-> Inf(neg)]

FloatZero(neg) == [err |-> "", val |-> Finite(neg, Zero4, 0)]

\* the float64 q * 2^e, where q # <<>> has at most 53 bits and z zero bits
\* at its low end
Packed(neg, e, q, z) ==
    [err |-> "",
     val |-> Finite(neg, [i \in Limbs |-> Limb(BigShr(q, z), i)], e + z)]

\* the float64 q * 2^e of a rounded quotient q of at most 54 bits
Rounded(neg, e, q) ==
    IF q = <<>> THEN FloatZero(neg)
    ELSE IF BigBits(q) + e > 1024 THEN FloatRange(neg)
    ELSE Packed(neg, e, q, LowZeros(q))

\* what is left of the division is more than half of the divisor, or it is
\* the half and the quotient is odd
RoundsUp(qr) ==
    \/ BigLess(qr.t.t8, qr.r)
    \/ qr.r = qr.t.t8 /\ qr.q # <<>> /\ qr.q[1] % 2 = 1

\* the quotient qr rounded to the nearest integer, the even one of two
RoundQuotient(neg, e, qr) ==
    Rounded(neg, e, IF RoundsUp(qr) THEN BigMulAdd(qr.q, 1, 1) ELSE qr.q)

\* the float64 nearest to (n / d) * 2^k, where n * 2^s1 / d lies in
\* [2^52, 2^53) and the last bit kept is the one at 2^(k - s): 14 digits of
\* base 16 of n * 2^s / d, the first of them 0 or 1
RoundAt(neg, n, d, k, s1, s) ==
    IF s1 - s > 54 THEN FloatZero(neg)
    ELSE RoundQuotient(neg, k - s,
            Quotient([q |-> <<>>, r |-> BigShl(n, Max(s, 0)), d |-> 0,
                      i |-> 14,
                      t |-> Multiples(BigShl(d, Max(0 - s, 0) + 52))]))

\* a subnormal number has its last bit at 2^-1074
RoundScaled(neg, n, d, k, s1) ==
    IF k - s1 > 971 THEN FloatRange(neg)
    ELSE RoundAt(neg, n, d, k, s1, IF k - s1 < -1074 THEN k + 1074 ELSE s1)

\* the s1 for which n * 2^s1 / d lies in [2^52, 2^53), given that
\* n * 2^s0 / d lies between 2^51 and 2^53
NormalShift(n, d, s0) ==
    IF BigLess(BigShl(n, Max(s0, 0)), BigShl(d, Max(0 - s0, 0) + 52))
    THEN s0 + 1 ELSE s0

\* the float64 nearest to (n / d) * 2^k for n, d > 0: [err, val]
RoundToFloat(neg, n, d, k) ==
    RoundScaled(neg, n, d, k,
                NormalShift(n, d, 52 - (BigBits(n) - BigBits(d))))

\* strconv.lower and the test of a hexadecimal letter
IsHexLetter(c) == DigitVal(c) \in 10..15

\* the loop of readFloat over the mantissa from s[st.i]: the digits read
\* with the leading zeros dropped, their number nd, the place dp of the
\* point, and the index i of the first character not read
RECURSIVE ReadMantissa(_, _, _)
ReadMantissa(s, hex, st) ==
    IF st.i > Len(s) THEN st
    ELSE LET c == s[st.i]
             digit == [st EXCEPT !.sawdigits = TRUE, !.nd = @ + 1,
                                 !.digits = Append(@, DigitVal(c)),
                                 !.i = @ + 1]
         IN  IF c = "_"
             THEN ReadMantissa(s, hex, [st EXCEPT !.underscores = TRUE,
                                                  !.i = @ + 1])
             ELSE IF c = "."
             THEN IF st.sawdot THEN st
                  ELSE ReadMantissa(s, hex, [st EXCEPT !.sawdot = TRUE,
                                                       !.dp = st.nd,
                                                       !.i = @ + 1])
             ELSE IF IsDigit(c)
             THEN IF c = "0" /\ st.nd = 0
                  THEN ReadMantissa(s, hex, [st EXCEPT !.sawdigits = TRUE,
                                                       !.dp = @ - 1,
                                                       !.i = @ + 1])
                  ELSE ReadMantissa(s, hex, digit)
             ELSE IF hex /\ IsHexLetter(c)
             THEN ReadMantissa(s, hex, digit)
             ELSE st

\* the loop of readFloat over the digits of the exponent from s[st.i],
\* which stops adding at 10000
RECURSIVE FloatExponent(_, _)
FloatExponent(s, st) ==
    IF st.i <= Len(s) /\ (IsDigit(s[st.i]) \/ s[st.i] = "_")
    THEN FloatExponent(s,
            IF s[st.i] = "_" THEN [st EXCEPT !.underscores = TRUE, !.i = @ + 1]
            ELSE IF st.e < 10000
            THEN [st EXCEPT !.e = @ * 10 + DigitVal(s[st.i]), !.i = @ + 1]
            ELSE [st EXCEPT !.i = @ + 1])
    ELSE st

\* the loop of strconv.underscoreOK from s[i], saw being "0" after a digit,
\* "_" after an underscore, "^" at the start and "!" otherwise
RECURSIVE UnderscoreLoop(_, _, _, _)
UnderscoreLoop(s, i, hex, saw) ==
    IF i > Len(s) THEN saw # "_"
    ELSE IF IsDigit(s[i]) \/ (hex /\ IsHexLetter(s[i]))
    THEN UnderscoreLoop(s, i + 1, hex, "0")
    ELSE IF s[i] = "_"
    THEN saw = "0" /\ UnderscoreLoop(s, i + 1, hex, "_")
    ELSE saw # "_" /\ UnderscoreLoop(s, i + 1, hex, "!")

underscoreOK(str) ==
    LET s == IF Len(str) >= 1 /\ str[1] \in {"-", "+"} THEN Tail(str) ELSE str
        prefix == /\ Len(s) >= 2
                  /\ s[1] = "0"
                  /\ s[2] \in {"b", "B", "o", "O", "x", "X"}
    IN  IF prefix THEN UnderscoreLoop(s, 3, s[2] \in {"x", "X"}, "0")
        ELSE UnderscoreLoop(s, 1, FALSE, "^")

\* readFloat after the exponent: x.e is the exponent read, x.i the index of
\* the first character not read
FloatRead(s, i0, hex, m, x, ok) ==
    [ok |-> /\ ok
            /\ Len(s) >= i0
            /\ m.sawdigits
            /\ x.underscores => underscoreOK(SubSeq(s, 1, x.i - 1)),
     neg |-> Len(s) > 0 /\ s[1] = "-", hex |-> hex, digits |-> m.digits,
     dp |-> x.dp + x.e, exp |-> x.dp + x.e - x.unit * m.nd, i |-> x.i]

\* the exponent of readFloat, whose digits start at s[j1] when expOK
ReadExponentAt(s, i0, hex, m, hasExp, expOK, minus, j1) ==
    LET unit == IF hex THEN 4 ELSE 1
        x0   == [e |-> 0, i |-> IF expOK THEN j1 ELSE m.i,
                 underscores |-> m.underscores, unit |-> unit,
                 dp |-> unit * (IF m.sawdot THEN m.dp ELSE m.nd)]
    IN  FloatRead(s, i0, hex, m,
                  IF ~expOK THEN x0
                  ELSE IF minus THEN [FloatExponent(s, x0) EXCEPT !.e = 0 - @]
                  ELSE FloatExponent(s, x0),
                  (hasExp => expOK) /\ (hex => hasExp))

\* readFloat after the mantissa m: the exponent letter at s[m.i] and the
\* sign after it
ReadExponentSign(s, i0, hex, m, hasExp, esigned) ==
    ReadExponentAt(s, i0, hex, m, hasExp,
                   /\ hasExp
                   /\ m.i + (IF esigned THEN 2 ELSE 1) <= Len(s)
                   /\ IsDigit(s[m.i + (IF esigned THEN 2 ELSE 1)]),
                   esigned /\ s[m.i + 1] = "-",
                   m.i + (IF esigned THEN 2 ELSE 1))

ReadExponentLetter(s, i0, hex, m, hasExp) ==
    ReadExponentSign(s, i0, hex, m, hasExp,
                     hasExp /\ m.i + 1 <= Len(s) /\ s[m.i + 1] \in {"+", "-"})

ReadAfterMantissa(s, i0, hex, m) ==
    ReadExponentLetter(s, i0, hex, m,
                       /\ m.i <= Len(s)
                       /\ s[m.i] \in (IF hex THEN {"p", "P"} ELSE {"e", "E"}))

ReadAfterPrefix(s, i0, hex) ==
    ReadAfterMantissa(s, i0, hex,
        ReadMantissa(s, hex, [digits |-> <<>>, nd |-> 0, dp |-> 0,
                              sawdot |-> FALSE, sawdigits |-> FALSE,
                              underscores |-> FALSE,
                              i |-> IF hex THEN i0 + 2 ELSE i0]))

ReadAfterSign(s, i0) ==
    ReadAfterPrefix(s, i0,
                    Len(s) >= i0 + 2 /\ s[i0] = "0" /\ s[i0 + 1] \in {"x", "X"})

\* strconv.readFloat: whether s starts with a number, its sign, its base,
\* its digits and the exponent of the base (10, or 2 for a hexadecimal
\* mantissa) they are to be multiplied with, and the index after it
readFloat(s) ==
    ReadAfterSign(s, IF Len(s) > 0 /\ s[1] \in {"+", "-"} THEN 2 ELSE 1)

\* strconv.commonPrefixLenIgnoreCase(s, prefix) for a prefix in lower case
RECURSIVE commonPrefixLenIgnoreCase(_, _)
commonPrefixLenIgnoreCase(s, prefix) ==
    IF s = <<>> \/ prefix = <<>> THEN 0
    ELSE LET c == IF Code(s[1]) \in Code("A")..Code("Z")
                  THEN CharOf(Code(s[1]) + 32) ELSE s[1]
         IN  IF c # prefix[1] THEN 0
             ELSE 1 + commonPrefixLenIgnoreCase(Tail(s), Tail(prefix))

\* strconv.special: the infinities and NaN, and the number n of characters
\* read
special(s) ==
    LET none   == [ok |-> FALSE, val |-> F0, n |-> 0]
        signed == s[1] \in {"+", "-"}
        body   == IF signed THEN Tail(s) ELSE s
        n0     == commonPrefixLenIgnoreCase(
                      body, <<"i", "n", "f", "i", "n", "i", "t", "y">>)
        n      == IF 3 < n0 /\ n0 < 8 THEN 3 ELSE n0
    IN  IF Len(s) = 0 THEN none
        ELSE IF signed \/ s[1] \in {"i", "I"}
        THEN IF n \in {3, 8}
             THEN [ok |-> TRUE, val |-> Inf(s[1] = "-"),
                   n |-> n + (IF signed THEN 1 ELSE 0)]
             ELSE none
        ELSE IF s[1] \in {"n", "N"}
                /\ commonPrefixLenIgnoreCase(s, <<"n", "a", "n">>) = 3
        THEN [ok |-> TRUE, val |-> NaN, n |-> 3]
        ELSE none

\* the float64 of the hexadecimal mantissa n with the exponent exp of 2
HexFloat(neg, n, exp) ==
    IF BigBits(n) + exp > 1025 THEN FloatRange(neg)
    ELSE IF BigBits(n) + exp < -1076 THEN FloatZero(neg)
    ELSE RoundToFloat(neg, n, <<1>>, exp)

\* the float64 of the decimal mantissa n with the exponent exp of 10
DecimalFloat(neg, n, exp) ==
    RoundToFloat(neg, BigMulPow10(n, Max(exp, 0)),
                 BigMulPow10(<<1>>, Max(0 - exp, 0)), 0)

\* the float64 of what readFloat read
FloatOf(f) ==
    IF f.digits = <<>> THEN FloatZero(f.neg)
    ELSE IF f.hex
    THEN HexFloat(f.neg, BigOfDigits([ds |-> f.digits, acc |-> <<>>], 16),
                  f.exp)
    ELSE IF f.dp > 310 THEN FloatRange(f.neg)
    ELSE IF f.dp < -330 THEN FloatZero(f.neg)
    ELSE DecimalFloat(f.neg, BigOfDigits([ds |-> f.digits, acc |-> <<>>], 10),
                      f.exp)

FloatResult(r) == [ok |-> r.err = "", err |-> r.err, val |-> r.val]

\* ParseFloat after special has found no infinity and no NaN
ParseNumber(s, f) ==
    IF ~f.ok \/ f.i # Len(s) + 1
    THEN [ok |-> FALSE, err |-> "syntax", val |-> F0]
    ELSE FloatResult(FloatOf(f))

ParseSpecial(s, sp) ==
    IF ~sp.ok THEN ParseNumber(s, readFloat(s))
    ELSE IF sp.n = Len(s) THEN [ok |-> TRUE, err |-> "", val |-> sp.val]
    ELSE [ok |-> FALSE, err |-> "syntax", val |-> F0]

\* ParseFloat(s, 64): err is "" (nil), "syntax" (ErrSyntax) or "range"
\* (ErrRange), and ok says that it is nil
ParseFloat(s) == ParseSpecial(s, special(s))

(***************************************************************************)
(* tokens: the parser reads Type and Value; Line and Column reach error    *)
(* messages only and are left out                                          *)
(***************************************************************************)
TokenEOF == "EOF"

TokenIdentifier == "IDENTIFIER"

TokenString == "STRING"

TokenInteger == "INTEGER"

TokenFloat == "FLOAT"

TokenBoolean == "BOOLEAN"

TokenAssign == "ASSIGN"

TokenSemicolon == "SEMICOLON"

TokenComma == "COMMA"

TokenLeftBrace == "LEFT_BRACE"

TokenRightBrace == "RIGHT_BRACE"

TokenLeftBracket == "LEFT_BRACKET"

TokenRightBracket == "RIGHT_BRACKET"

TokenLeftParen == "LEFT_PAREN"

TokenRightParen == "RIGHT_PAREN"

TokenInclude == "INCLUDE"

TokenError == "ERROR"

Token(type, value) == [Type |-> type, Value |-> value]

EOFToken == Token(TokenEOF, <<>>)

\* tokens as the lexer returns them
TokId(x) == Token(TokenIdentifier, <<x>>)

TokAssign == Token(TokenAssign, <<"=">>)

TokOne == Token(TokenInteger, <<"1">>)

TokStr(x) == Token(TokenString, <<x>>)

TokLeftBrace == Token(TokenLeftBrace, <<"{">>)

TokRightBrace == Token(TokenRightBrace, <<"}">>)

TokSemicolon == Token(TokenSemicolon, <<";">>)

TokInclude == Token(TokenInclude, <<"@", "i", "n", "c", "l", "u", "d", "e">>)

(***************************************************************************)
(* errors: the sentinel a returned error wraps ("" is nil)                 *)
(***************************************************************************)
ErrUnexpectedToken == "ErrUnexpectedToken"

ErrExpectedToken == "ErrExpectedToken"

ErrIncludeDepthExceeded == "ErrIncludeDepthExceeded"

ErrExpectedStringAfterInclude == "ErrExpectedStringAfterInclude"

ErrIncludeFileNotFound == "ErrIncludeFileNotFound"

ErrExpectedIdentifier == "ErrExpectedIdentifier"

ErrExpectedAssignment == "ErrExpectedAssignment"

ErrArrayTypeMismatch == "ErrArrayTypeMismatch"

\* errors that wrap no sentinel of the package; the one of os.Open names
\* the path it was called with
ErrInvalidInteger == "invalid integer"

ErrInvalidFloat == "invalid float"

ErrOpenFile == "failed to open file"

(***************************************************************************)
(* paths and the file system                                               *)
(***************************************************************************)
\* op applied to the value v.  TLC evaluates a definition under ENABLED at
\* every use of it and the set a variable is bound in once, so a value
\* that is used many times is bound here
Apply(v, op(_)) == CHOOSE r \in {op(x) : x \in {v}} : TRUE

\* the k-th smallest number of the set S
Nth(S, k) == CHOOSE i \in S : Cardinality({j \in S : j <= i}) = k

\* the characters of s at the places Pos, in their order
Pick(s, Pos) == [k \in 1..Cardinality(Pos) |-> s[Nth(Pos, k)]]

\* the places of the separators of a path
Slashes(path) == {i \in DOMAIN path : path[i] = "/"}

\* the index of the last "/" of a path, 0 when it has none
LastSlash(path) ==
    CHOOSE i \in Slashes(path) \cup {0} : \A j \in Slashes(path) : j <= i

\* the places that bound the elements of a path: its separators, the place
\* before its first character and the place after its last
Bounds(path) == Slashes(path) \cup {0, Len(path) + 1}

\* the elements of a path, the empty ones between two separators included:
\* strings.Split(path, "/")
PathElements(path) ==
    Apply(Bounds(path),
          LAMBDA B : [k \in 1..(Cardinality(B) - 1) |->
                        SubSeq(path, Nth(B, k) + 1, Nth(B, k + 1) - 1)])

DotDot == <<".", ".">>

\* an element that filepath.Clean neither drops nor reads as a step upwards
IsName(e) == e \notin {<<>>, <<".">>, DotDot}

\* among the elements i..j of es, the names less the ".." elements
Depth(es, i, j) ==
    Cardinality({k \in i..j : IsName(es[k])})
        - Cardinality({k \in i..j : es[k] = DotDot})

\* the elements that the loop of filepath.Clean leaves in its output: an
\* empty element and "." are dropped, ".." removes the name before it when
\* there is one to remove, is dropped at the root and is kept otherwise
CleanElements(es, rooted) ==
    {i \in DOMAIN es :
        IF IsName(es[i])
        THEN \A j \in (i + 1)..Len(es) : Depth(es, i + 1, j) >= 0
        ELSE ~rooted /\ es[i] = DotDot /\ \A k \in 1..i : Depth(es, k, i) < 0}

\* the places of path that make up element i of it, the separator before
\* it included when sep holds
ElementPlaces(path, i, sep) ==
    (Nth(Bounds(path), i) + 1)..(Nth(Bounds(path), i + 1) - 1)
        \cup (IF sep THEN {Nth(Bounds(path), i)} \ {0} ELSE {})

\* the elements kept of a path, each after one separator; a path that is
\* not rooted starts with its first element
JoinElements(path, kept, rooted) ==
    Apply(UNION {ElementPlaces(path, i, rooted \/ \E j \in kept : j < i) :
                   i \in kept},
          LAMBDA Pos : Pick(path, Pos))

\* the path starts at the root
Rooted(path) == path # <<>> /\ path[1] = "/"

\* filepath.Clean of a Unix path
CleanKept(path, kept) ==
    IF kept # {} THEN JoinElements(path, kept, Rooted(path))
    ELSE IF Rooted(path) THEN <<"/">>
    ELSE <<".">>

Clean(path) ==
    Apply(PathElements(path),
          LAMBDA es : Apply(CleanElements(es, Rooted(path)),
                            LAMBDA kept : CleanKept(path, kept)))

\* filepath.Dir: the path up to its last separator, cleaned
Dir(path) == Clean(SubSeq(path, 1, LastSlash(path)))

\* filepath.Join(dir, path): the elements that are not empty, joined and
\* cleaned; the empty string when both are empty
Join(dir, path) ==
    IF dir = <<>> /\ path = <<>> THEN <<>>
    ELSE IF dir = <<>> THEN Clean(path)
    ELSE IF path = <<>> THEN Clean(dir)
    ELSE Clean(dir \o <<"/">> \o path)

(***************************************************************************)
(* The file system is a function from the clean paths of its files to the  *)
(* files; a relative path starts at the working directory.  There are no   *)
(* links.  The directories are the root, the working directory and the     *)
(* ones above it, and every directory on the path to a file.               *)
(***************************************************************************)
\* the name under which the token list of a Reader's lexer is kept: the
\* empty name, which no path leads to
ReaderFile == <<>>

\* the paths of the files of file system fsys
FilesOf(fsys) == DOMAIN fsys \ {ReaderFile}

\* path k lies below the directory dir
LiesBelow(dir, k) ==
    IF dir = <<"/">> THEN Rooted(k) /\ k # dir
    ELSE IF dir = <<".">>
    THEN k # <<>> /\ ~Rooted(k) /\ k # dir /\ PathElements(k)[1] # DotDot
    ELSE Len(k) > Len(dir) + 1 /\ SubSeq(k, 1, Len(dir) + 1) = dir \o <<"/">>

IsDirIn(fsys, key) ==
    /\ key \notin FilesOf(fsys)
    /\ \/ key \in {<<".">>, <<"/">>}
       \/ \A i \in DOMAIN PathElements(key) : PathElements(key)[i] = DotDot
       \/ \E k \in FilesOf(fsys) : LiesBelow(key, k)

\* the directories that the kernel walks through on its way along a path:
\* the clean path of every part of it that ends before a separator
Walk(path) ==
    {IF i = 1 THEN <<"/">> ELSE Clean(SubSeq(path, 1, i - 1)) : i \in Slashes(path)}

\* the file or directory that path names in fsys, <<>> when it names none:
\* every step of the walk needs a directory to start from (ENOTDIR) and
\* the path reached to exist (ENOENT)
ResolveIn(fsys, path) ==
    IF /\ path # <<>>
       /\ \A dir \in Walk(path) : IsDirIn(fsys, dir)
       /\ \E key \in {Clean(path)} : key \in FilesOf(fsys) \/ IsDirIn(fsys, key)
    THEN Clean(path)
    ELSE <<>>

Resolve(path) == ResolveIn(fs, path)

\* what a lexer reads from a directory: os.Open succeeds, the read fails
\* and NewLexer makes the lexer of the empty input, whose token list is
\* the EOF token alone
Directory == [tokens |-> <<EOFToken>>, complete |-> TRUE, readable |-> TRUE]

\* the file or directory at a resolved path
FileIn(fsys, key) == IF key \in DOMAIN fsys THEN fsys[key] ELSE Directory

\* os.Stat(path) succeeds
fileExists(path) == Resolve(path) # <<>>

\* os.Open(path) succeeds
CanOpen(path) == fileExists(path) /\ FileIn(fs, Resolve(path)).readable

\* the first element of paths that exists, <<>> when none does
RECURSIVE FirstExisting(_)
FirstExisting(paths) ==
    IF paths = <<>> THEN <<>>
    ELSE IF fileExists(Head(paths)) THEN Head(paths)
    ELSE FirstExisting(Tail(paths))

(***************************************************************************)
(* the lexer's cursor.  NewLexer builds the whole token list of a file     *)
(* before the parser starts and the parser reads it strictly left to       *)
(* right, one token per NextToken call.  fs[f].tokens is the part of the   *)
(* list read so far; while the file is not complete, the token a           *)
(* NextToken call at its end returns is drawn from the alphabet, and a     *)
(* drawn EOF token completes the list.  A second Parser on the same file   *)
(* (an include cycle) reads the tokens already drawn.                      *)
(***************************************************************************)
\* most tokens of the file m, its EOF token not counted
MaxTokens == 8

\* most tokens of the including file r and of the included file f
MaxRootTokens == 6

MaxIncludedTokens == 3

\* most tokens before EOF in the files s and u
MaxCycleTokens == 5

\* the tokens of m
Alphabet ==
    { Token(TokenIdentifier, <<"a">>), Token(TokenIdentifier, <<"b">>),
      Token(TokenAssign, <<"=">>), Token(TokenSemicolon, <<";">>),
      Token(TokenComma, <<",">>),
      Token(TokenLeftBrace, <<"{">>), Token(TokenRightBrace, <<"}">>),
      Token(TokenLeftBracket, <<"[">>), Token(TokenRightBracket, <<"]">>),
      Token(TokenLeftParen, <<"(">>), Token(TokenRightParen, <<")">>),
      Token(TokenString, <<"f">>),
      Token(TokenInteger, <<"1">>), Token(TokenInteger, <<"2", "L">>),
      Token(TokenFloat, <<"2", ".", "5">>),
      Token(TokenBoolean, <<"t", "r", "u", "e">>),
      Token(TokenInclude, <<"@", "i", "n", "c", "l", "u", "d", "e">>),
      Token(TokenError, <<"$">>) }

\* the tokens of r and f
IncludeAlphabet ==
    { Token(TokenIdentifier, <<"a">>), Token(TokenIdentifier, <<"b">>),
      Token(TokenAssign, <<"=">>), Token(TokenSemicolon, <<";">>),
      Token(TokenLeftBrace, <<"{">>), Token(TokenRightBrace, <<"}">>),
      Token(TokenString, <<"f">>), Token(TokenString, <<"r">>),
      Token(TokenInteger, <<"1">>),
      Token(TokenInclude, <<"@", "i", "n", "c", "l", "u", "d", "e">>) }

\* the tokens of the files that are drawn to follow include cycles
CycleAlphabet ==
    { Token(TokenIdentifier, <<"a">>), Token(TokenAssign, <<"=">>),
      Token(TokenSemicolon, <<";">>), Token(TokenLeftBrace, <<"{">>),
      Token(TokenString, <<"s">>), Token(TokenString, <<"u">>),
      Token(TokenInclude, <<"@", "i", "n", "c", "l", "u", "d", "e">>) }

AlphabetOf(file) ==
    IF file = <<"m">> THEN Alphabet
    ELSE IF file \in {<<"s">>, <<"u">>} THEN CycleAlphabet
    ELSE IncludeAlphabet

LimitOf(file) ==
    IF file = <<"m">> THEN MaxTokens
    ELSE IF file = <<"r">> THEN MaxRootTokens
    ELSE IF file \in {<<"s">>, <<"u">>} THEN MaxCycleTokens
    ELSE MaxIncludedTokens

\* the tokens a NextToken call of parser p can return
NextTokens(p) ==
    LET f == FileIn(fs, p.file)
    IN  IF p.tokenPos < Len(f.tokens) THEN {f.tokens[p.tokenPos + 1]}
        ELSE IF f.complete THEN {EOFToken}
        ELSE IF Len(f.tokens) < LimitOf(p.file)
        THEN AlphabetOf(p.file) \cup {EOFToken}
        ELSE {EOFToken}

\* the file system once parser p has read token t
Reveal(p, t) ==
    LET f == FileIn(fs, p.file)
    IN  IF p.tokenPos < Len(f.tokens) \/ f.complete THEN fs
        ELSE [fs EXCEPT ![p.file] = [f EXCEPT !.tokens = Append(@, t),
                                             !.complete = (t.Type = TokenEOF)]]

\* Lexer.NextToken followed by Parser.advance: the cursor stays on the
\* last token once the list is exhausted
advance(p, t) ==
    [p EXCEPT !.current = t,
              !.tokenPos = IF p.tokenPos < Len(FileIn(Reveal(p, t), p.file).tokens)
                           THEN @ + 1 ELSE @]

(***************************************************************************)
(* the parser.  A Parser instance is a record; the activations of Parse,   *)
(* parseGroup, parseArray and parseList on its call stack are its frames,  *)
(* the running one last.  A frame holds the locals of its function and of  *)
(* the parseSetting/parseValue/parseInclude call it is in, and pc, the     *)
(* place where it continues.  Every step reads p.current and advances at   *)
(* most once.                                                              *)
(***************************************************************************)
\* the include depth at which parseInclude refuses
MaxIncludeDepth == 10

Frame(fn, pc) ==
    [fn |-> fn, pc |-> pc,
     name |-> <<>>,            \* parseSetting: name
     value |-> <<>>,           \* parseValue: the string being concatenated
     site |-> "first",         \* parseArray: which parseValue call is running
     group |-> <<>>,           \* Parse: config.Root.GroupVal; parseGroup: group
     elements |-> <<>>,        \* parseArray, parseList: elements
     firstElement |-> Value,   \* parseArray: firstElement
     includePath |-> <<>>]     \* parseInclude: includePath

Nil == [isNil |-> TRUE, Root |-> Value]

\* what the top-level call returned: the Config, the sentinel error its
\* error wraps ("" for nil) and, for ErrIncludeFileNotFound, the include
\* path and the paths tried that line 148 formats into the message
NoReturn == [done |-> FALSE, config |-> Nil, err |-> "", args |-> <<>>]

Top(seq) == seq[Len(seq)]

Pop(seq) == SubSeq(seq, 1, Len(seq) - 1)

SetTop(seq, x) == [seq EXCEPT ![Len(seq)] = x]

\* the running parser and its running frame
P == Top(parsers)

F == Top(P.frames)

WithFrame(p, f) == [p EXCEPT !.frames = SetTop(@, f)]

At(fns, pcs) ==
    /\ parsers # <<>>
    /\ F.fn \in fns
    /\ F.pc \in pcs

IsGroupLike(f) == f.fn \in {"Parse", "parseGroup"}

\* group[name] = value
Put(group, name, value) ==
    [k \in DOMAIN group \cup {name} |-> IF k = name THEN value ELSE group[k]]

\* the outcome of one step: the error returned ("" for none), the running
\* parser after it, and whether the step called advance
Ok(p, adv) == [err |-> "", p |-> p, adv |-> adv]

Err(e, p, adv) == [err |-> e, p |-> p, adv |-> adv]

\* Deliver with the homogeneity check of parseArray left out
DeliverUnchecked(p, v, adv) ==
    LET f == Top(p.frames)
    IN  IF IsGroupLike(f)
        THEN Ok(WithFrame(p, [f EXCEPT !.group = Put(@, f.name, v),
                                       !.name = <<>>, !.value = <<>>,
                                       !.pc = "semi"]), adv)
        ELSE IF f.fn = "parseArray" /\ f.site = "first"
        THEN Ok(WithFrame(p, [f EXCEPT !.firstElement = v,
                                       !.elements = <<v>>,
                                       !.value = <<>>, !.pc = "loop"]), adv)
        ELSE Ok(WithFrame(p, [f EXCEPT !.elements = Append(@, v),
                                       !.value = <<>>, !.pc = "loop"]), adv)

\* a finished parseValue hands its value to the frame that called it:
\* Parse line 92 and parseGroup line 270 store it under the setting's name,
\* parseArray lines 305-327 check its type against the first element and
\* append it, parseList lines 357-373 append it
Deliver(p, v, adv) ==
    LET f == Top(p.frames)
    IN  IF IsGroupLike(f)
        THEN Ok(WithFrame(p, [f EXCEPT !.group = Put(@, f.name, v),
                                       !.name = <<>>, !.value = <<>>,
                                       !.pc = "semi"]), adv)
        ELSE IF f.fn = "parseArray" /\ f.site = "first"
        THEN Ok(WithFrame(p, [f EXCEPT !.firstElement = v,
                                       !.elements = <<v>>,
                                       !.value = <<>>, !.pc = "loop"]), adv)
        ELSE IF f.fn = "parseArray" /\ v.Type # f.firstElement.Type
        THEN Err(ErrArrayTypeMismatch, p, adv)
        ELSE Ok(WithFrame(p, [f EXCEPT !.elements = Append(@, v),
                                       !.value = <<>>, !.pc = "loop"]), adv)

\* the running frame returns v to the frame below it
Return(p, v, adv) == Deliver([p EXCEPT !.frames = Pop(@)], v, adv)

\* Parser.expect on the running parser: the error, or the advance
expect(p, tokenType, t) ==
    IF p.current.Type # tokenType THEN Err(ErrExpectedToken, p, FALSE)
    ELSE Ok(advance(p, t), TRUE)

\* mergeConfig that keeps the target's value of a key both groups hold
mergeConfigKeepTarget(target, source) ==
    IF target.Type # TypeGroup \/ source.Type # TypeGroup THEN target
    ELSE [target EXCEPT !.GroupVal =
            [k \in DOMAIN target.GroupVal \cup DOMAIN source.GroupVal |->
                IF k \in DOMAIN target.GroupVal THEN target.GroupVal[k]
                ELSE source.GroupVal[k]]]

\* mergeConfig that merges a group both hold member by member
RECURSIVE mergeConfigDeep(_, _)
mergeConfigDeep(target, source) ==
    IF target.Type # TypeGroup \/ source.Type # TypeGroup THEN target
    ELSE [target EXCEPT !.GroupVal =
            [k \in DOMAIN target.GroupVal \cup DOMAIN source.GroupVal |->
                IF k \notin DOMAIN source.GroupVal THEN target.GroupVal[k]
                ELSE IF /\ k \in DOMAIN target.GroupVal
                        /\ target.GroupVal[k].Type = TypeGroup
                        /\ source.GroupVal[k].Type = TypeGroup
                THEN mergeConfigDeep(target.GroupVal[k], source.GroupVal[k])
                ELSE source.GroupVal[k]]]

\* mergeConfig(target, source) on two Values: the target afterwards, every
\* key of source copied into it over the keys it already holds
mergeConfig(target, source) ==
    IF target.Type # TypeGroup \/ source.Type # TypeGroup THEN target
    ELSE [target EXCEPT !.GroupVal =
            [k \in DOMAIN target.GroupVal \cup DOMAIN source.GroupVal |->
                IF k \in DOMAIN source.GroupVal THEN source.GroupVal[k]
                ELSE target.GroupVal[k]]]

\* a parser of an included file that starts again at depth 0
NewParserAtDepthZero(file, baseDir, depth) ==
    [file |-> file, tokenPos |-> 0, current |-> Token("", <<>>),
     baseDir |-> baseDir, includeDepth |-> 0,
     frames |-> <<Frame("Parse", "loop")>>]

\* NewParserWithBaseDir on a new lexer of file, with the includeDepth that
\* parseFileWithDepth sets, before its first advance
NewParserWithBaseDir(file, baseDir, depth) ==
    [file |-> file, tokenPos |-> 0, current |-> Token("", <<>>),
     baseDir |-> baseDir, includeDepth |-> depth,
     frames |-> <<Frame("Parse", "loop")>>]

\* the Lexer of the Reader after step r of the running parser: NextToken
\* moves its tokenPos when the parser that advanced is the one made on it
Advanced(l, r) ==
    IF r.adv /\ P.file = ReaderFile THEN [l EXCEPT !.tokenPos = r.p.tokenPos]
    ELSE l

\* Commit that hands back the Config built so far together with the error
CommitPartial(r, t) ==
    /\ fs' = IF r.adv THEN Reveal(P, t) ELSE fs
    /\ IF r.err # ""
       THEN /\ parsers' = <<>>
            /\ ret' = [done |-> TRUE,
                       config |-> [isNil |-> FALSE,
                                   Root |-> NewGroupValue(parsers[1].frames[1].group)],
                       err |-> r.err, args |-> <<>>]
       ELSE /\ parsers' = SetTop(parsers, r.p)
            /\ UNCHANGED ret
    /\ lexer' = Advanced(lexer, r)
    /\ UNCHANGED <<uintSize, intVars, lookupVars, reader, got>>

\* a step of the running parser takes effect
Commit(r, t) ==
    /\ fs' = IF r.adv THEN Reveal(P, t) ELSE fs
    /\ IF r.err # ""
       THEN /\ parsers' = <<>>
            /\ ret' = [done |-> TRUE, config |-> Nil, err |-> r.err, args |-> <<>>]
       ELSE /\ parsers' = SetTop(parsers, r.p)
            /\ UNCHANGED ret
    /\ lexer' = Advanced(lexer, r)
    /\ UNCHANGED <<uintSize, intVars, lookupVars, reader, got>>

\* step(t) is the outcome of the running parser's step when its advance, if
\* it makes one, reads token t
Step(step(_)) ==
    \E t \in NextTokens(P) :
        /\ step(t).adv \/ t = CHOOSE x \in NextTokens(P) : TRUE
        /\ Commit(step(t), t)

\* the optional semicolon after a setting (Parse 94-97, parseGroup 272-275)
OptionalSemicolon(t) ==
    LET p == WithFrame(P, [F EXCEPT !.pc = "loop"])
    IN  IF P.current.Type = TokenSemicolon THEN Ok(advance(p, t), TRUE)
        ELSE Ok(p, FALSE)

(***************************************************************************)
(* Config.Lookup and the typed lookups                                     *)
(***************************************************************************)
ErrCannotLookupInNonGroup == "ErrCannotLookupInNonGroup"

ErrSettingNotFound == "ErrSettingNotFound"

ErrNotInteger == "ErrNotInteger"

ErrNotFloat == "ErrNotFloat"

ErrNotBoolean == "ErrNotBoolean"

ErrNotString == "ErrNotString"

ErrIntegerOutOfRange == "ErrIntegerOutOfRange"

\* strings.Split(s, sep) for a one-character separator: the parts between
\* the separators, empty parts included; part is the part being read
RECURSIVE SplitFrom(_, _, _, _)
SplitFrom(s, sep, i, part) ==
    IF i > Len(s) THEN <<part>>
    ELSE IF s[i] = sep THEN <<part>> \o SplitFrom(s, sep, i + 1, <<>>)
    ELSE SplitFrom(s, sep, i + 1, Append(part, s[i]))

Split(s, sep) == SplitFrom(s, sep, 1, <<>>)

\* the loop of Lookup with an empty part looked up like any other
RECURSIVE LookupFromEveryPart(_, _, _)
LookupFromEveryPart(current, parts, i) ==
    IF i > Len(parts) THEN [nil |-> FALSE, val |-> current, err |-> ""]
    ELSE IF current.Type # TypeGroup
    THEN [nil |-> TRUE, val |-> Value, err |-> ErrCannotLookupInNonGroup]
    ELSE IF parts[i] \notin DOMAIN current.GroupVal
    THEN [nil |-> TRUE, val |-> Value, err |-> ErrSettingNotFound]
    ELSE LookupFromEveryPart(current.GroupVal[parts[i]], parts, i + 1)

\* the loop of Lookup from parts[i] on, current being the value reached
RECURSIVE LookupFrom(_, _, _)
LookupFrom(current, parts, i) ==
    IF i > Len(parts) THEN [nil |-> FALSE, val |-> current, err |-> ""]
    ELSE IF parts[i] = <<>> THEN LookupFrom(current, parts, i + 1)
    ELSE IF current.Type # TypeGroup
    THEN [nil |-> TRUE, val |-> Value, err |-> ErrCannotLookupInNonGroup]
    ELSE IF parts[i] \notin DOMAIN current.GroupVal
    THEN [nil |-> TRUE, val |-> Value, err |-> ErrSettingNotFound]
    ELSE LookupFrom(current.GroupVal[parts[i]], parts, i + 1)

\* Config.Lookup on the Config with Root root
Lookup(root, path) == LookupFrom(root, Split(path, "."), 1)

LookupInt(root, path, size) ==
    LET r == Lookup(root, path)
    IN  IF r.err # "" THEN [int |-> I0, err |-> r.err]
        ELSE IF r.val.Type = TypeInt THEN [int |-> r.val.IntVal, err |-> ""]
        ELSE IF r.val.Type = TypeInt64
        THEN IF OutsideIntRange(r.val.Int64Val, size)
             THEN [int |-> I0, err |-> ErrIntegerOutOfRange]
             ELSE [int |-> IntOf(r.val.Int64Val, size), err |-> ""]
        ELSE [int |-> I0, err |-> ErrNotInteger]

\* int64(val.IntVal): an int widened to 64 bits keeps its number
Int64OfInt(v) == v

LookupInt64(root, path) ==
    LET r == Lookup(root, path)
    IN  IF r.err # "" THEN [int |-> I0, err |-> r.err]
        ELSE IF r.val.Type = TypeInt
        THEN [int |-> Int64OfInt(r.val.IntVal), err |-> ""]
        ELSE IF r.val.Type = TypeInt64
        THEN [int |-> r.val.Int64Val, err |-> ""]
        ELSE [int |-> I0, err |-> ErrNotInteger]

\* a LookupFloat that also answers for the integer kinds, as a float
LookupFloatWidening(root, path) ==
    LET r == Lookup(root, path)
    IN  IF r.err # "" THEN [float |-> F0, err |-> r.err]
        ELSE IF r.val.Type \in {TypeInt, TypeInt64}
        THEN [float |-> Finite(FALSE, Small(1).mag, 0), err |-> ""]
        ELSE IF r.val.Type # TypeFloat
        THEN [float |-> F0, err |-> ErrNotFloat]
        ELSE [float |-> r.val.FloatVal, err |-> ""]

LookupFloat(root, path) ==
    LET r == Lookup(root, path)
    IN  IF r.err # "" THEN [float |-> F0, err |-> r.err]
        ELSE IF r.val.Type # TypeFloat
        THEN [float |-> F0, err |-> ErrNotFloat]
        ELSE [float |-> r.val.FloatVal, err |-> ""]

LookupBool(root, path) ==
    LET r == Lookup(root, path)
    IN  IF r.err # "" THEN [bool |-> FALSE, err |-> r.err]
        ELSE IF r.val.Type # TypeBool
        THEN [bool |-> FALSE, err |-> ErrNotBoolean]
        ELSE [bool |-> r.val.BoolVal, err |-> ""]

LookupString(root, path) ==
    LET r == Lookup(root, path)
    IN  IF r.err # "" THEN [str |-> <<>>, err |-> r.err]
        ELSE IF r.val.Type # TypeString
        THEN [str |-> <<>>, err |-> ErrNotString]
        ELSE [str |-> r.val.StrVal, err |-> ""]

\* the record of a lookup call; a field a function does not return holds
\* its zero value
NoLookup ==
    [fn |-> "", path |-> <<>>, err |-> "", nil |-> TRUE, val |-> Value,
     int |-> I0, float |-> F0, bool |-> FALSE, str |-> <<>>]

\* no Reader, no Lexer and no token call: the state of the lexer variables
\* in the runs that make none
NoReader == [text |-> <<>>, fails |-> FALSE]

NoLexer ==
    [pc |-> "none", input |-> <<>>, pos |-> 0, line |-> 1, column |-> 1,
     current |-> 0, tokens |-> <<>>, tokenPos |-> 0]

NoCall == [fn |-> "", token |-> EOFToken]

(***************************************************************************)
(* SpecInt: parseIntegerLiteral applied to literal texts                   *)
(***************************************************************************)
\* longest literal drawn from LitChars
MaxLitLen == 3

LitChars == {"0", "1", "9", "x", "b", "F", "L", "-"}

RECURSIVE SeqsUpTo(_, _)
SeqsUpTo(S, n) ==
    IF n = 0 THEN {<<>>}
    ELSE LET shorter == SeqsUpTo(S, n - 1)
         IN  shorter \cup {Append(t, c) : t \in shorter, c \in S}

\* the literals of the repository's tests and of the 32-bit boundary
BoundaryLiterals ==
    { <<"2","1","4","7","4","8","3","6","4","7">>,
      <<"2","1","4","7","4","8","3","6","4","8">>,
      <<"-","2","1","4","7","4","8","3","6","4","8">>,
      <<"-","2","1","4","7","4","8","3","6","4","9">>,
      <<"1","2","3","4","5","6","7","8","9","0","1","2","3">>,
      <<"9","2","2","3","3","7","2","0","3","6","8","5","4","7","7","5","8","0","7">>,
      <<"9","2","2","3","3","7","2","0","3","6","8","5","4","7","7","5","8","0","8">>,
      <<"9","2","2","3","3","7","2","0","3","6","8","5","4","7","7","5","8","0","7","L">>,
      <<"-","9","2","2","3","3","7","2","0","3","6","8","5","4","7","7","5","8","0","8","L">>,
      <<"-","9","2","2","3","3","7","2","0","3","6","8","5","4","7","7","5","8","0","8">>,
      <<"4","2","L">>, <<"4","2","l">>, <<"4","2">>,
      <<"0","x","F","F","L">>, <<"0","x","F","F">>, <<"0","X","f","f","l">>,
      <<"0","x","8","0","0","0","0","0","0","0">>,
      <<"0","x","7","F","F","F","F","F","F","F">>,
      <<"0","b","1","0","1","0","L">>, <<"0","o","7","5","5","L">>,
      <<"0","q","7","5","5">>, <<"0","o","8">>, <<"0","b","2">> }

Literals == SeqsUpTo(LitChars, MaxLitLen) \cup BoundaryLiterals

NoLitResult == [called |-> FALSE, ok |-> FALSE, val |-> Value]

InitInt ==
    /\ uintSize \in {32, 64}
    /\ literal \in Literals
    /\ litResult = NoLitResult
    /\ fs = <<>>
    /\ parsers = <<>>
    /\ ret = NoReturn
    /\ config = NewConfig
    /\ lookup = NoLookup
    /\ again = NoLookup
    /\ reader = NoReader
    /\ lexer = NoLexer
    /\ got = NoCall

\* a call parseIntegerLiteral(literal)
CallParseIntegerLiteral ==
    /\ ~litResult.called
    /\ litResult' = [called |-> TRUE] @@ parseIntegerLiteral(literal, uintSize)
    /\ UNCHANGED <<uintSize, literal, parseVars, lookupVars, lexVars>>

NextInt == CallParseIntegerLiteral

SpecInt == InitInt /\ [][NextInt]_vars

(***************************************************************************)
(* ParseFile                                                               *)
(***************************************************************************)
\* the names the top-level call is made with, of files that exist and of
\* files that do not
RootFiles ==
    {<<"m">>, <<"r">>, <<"s">>, <<"t">>, <<"c", "0", "0">>,
     <<"p">>, <<"d", "/", "p">>, <<"d", "/", ".", ".", "/", "p">>, <<"q">>}

\* ParseFile with the root parser started at include depth 1
ParseFileAtDepthOne ==
    /\ parsers = <<>>
    /\ ~ret.done
    /\ \E filename \in RootFiles :
        IF ~CanOpen(filename)
        THEN /\ ret' = [done |-> TRUE, config |-> Nil, err |-> ErrOpenFile,
                        args |-> <<filename>>]
             /\ UNCHANGED <<fs, parsers>>
        ELSE LET p0 == NewParserWithBaseDir(Resolve(filename), Dir(filename), 1)
             IN  \E t \in NextTokens(p0) :
                    /\ fs' = Reveal(p0, t)
                    /\ parsers' = <<advance(p0, t)>>
                    /\ UNCHANGED ret
    /\ UNCHANGED <<uintSize, intVars, lookupVars, lexVars>>

\* ParseFile(filename): open the file, build lexer and parser (NewParser
\* advances once), and enter Parse
ParseFile ==
    /\ parsers = <<>>
    /\ ~ret.done
    /\ \E filename \in RootFiles :
        IF ~CanOpen(filename)
        THEN /\ ret' = [done |-> TRUE, config |-> Nil, err |-> ErrOpenFile,
                        args |-> <<filename>>]
             /\ UNCHANGED <<fs, parsers>>
        ELSE LET p0 == NewParserWithBaseDir(Resolve(filename), Dir(filename), 0)
             IN  \E t \in NextTokens(p0) :
                    /\ fs' = Reveal(p0, t)
                    /\ parsers' = <<advance(p0, t)>>
                    /\ UNCHANGED ret
    /\ UNCHANGED <<uintSize, intVars, lookupVars, lexVars>>

(***************************************************************************)
(* Parser.Parse                                                            *)
(***************************************************************************)
\* ParseReturn with the included Root merged into the including parser's
\* top-level group, whatever group the @include was written in
ParseReturnIntoRoot ==
    LET parsed == NewGroupValue(F.group)
    IN  IF Len(parsers) = 1
        THEN /\ parsers' = <<>>
             /\ ret' = [done |-> TRUE,
                        config |-> [isNil |-> FALSE, Root |-> parsed],
                        err |-> "", args |-> <<>>]
        ELSE LET caller == parsers[Len(parsers) - 1]
                 g      == Top(caller.frames)
                 root   == caller.frames[1]
                 target == mergeConfig(NewGroupValue(root.group), parsed)
                 merged == [caller.frames EXCEPT ![1].group = target.GroupVal]
                 g2     == [Top(merged) EXCEPT !.includePath = <<>>,
                                               !.pc = "loop"]
             IN  /\ parsers' = SetTop(Pop(parsers),
                                      [caller EXCEPT !.frames = SetTop(merged, g2)])
                 /\ UNCHANGED ret

\* ParseReturn with the include counted in the including parser's
\* includeDepth
ParseReturnCounting ==
    LET parsed == NewGroupValue(F.group)
    IN  IF Len(parsers) = 1
        THEN /\ parsers' = <<>>
             /\ ret' = [done |-> TRUE,
                        config |-> [isNil |-> FALSE, Root |-> parsed],
                        err |-> "", args |-> <<>>]
        ELSE LET caller == parsers[Len(parsers) - 1]
                 g      == Top(caller.frames)
                 target == mergeConfig(NewGroupValue(g.group), parsed)
                 g2     == [g EXCEPT !.group = target.GroupVal,
                                     !.includePath = <<>>, !.pc = "loop"]
             IN  /\ parsers' = SetTop(Pop(parsers),
                                      [WithFrame(caller, g2)
                                            EXCEPT !.includeDepth = @ + 1])
                 /\ UNCHANGED ret

\* Parse returns config at EOF.  The root parser's return ends the call;
\* an included file's return resumes parseInclude in the including
\* parser, which merges the returned Root into its target (line 158)
ParseReturn ==
    LET parsed == NewGroupValue(F.group)
    IN  IF Len(parsers) = 1
        THEN /\ parsers' = <<>>
             /\ ret' = [done |-> TRUE,
                        config |-> [isNil |-> FALSE, Root |-> parsed],
                        err |-> "", args |-> <<>>]
        ELSE LET caller == parsers[Len(parsers) - 1]
                 g      == Top(caller.frames)
                 target == mergeConfig(NewGroupValue(g.group), parsed)
                 g2     == [g EXCEPT !.group = target.GroupVal,
                                     !.includePath = <<>>, !.pc = "loop"]
             IN  /\ parsers' = SetTop(Pop(parsers), WithFrame(caller, g2))
                 /\ UNCHANGED ret

Parse ==
    \/ /\ At({"Parse"}, {"loop"})
       /\ P.current.Type = TokenEOF
       /\ ParseReturn
       /\ UNCHANGED <<fs, uintSize, intVars, lookupVars, lexVars>>
    \/ /\ At({"Parse"}, {"semi"})
       /\ Step(OptionalSemicolon)

(***************************************************************************)
(* Parser.parseInclude                                                     *)
(***************************************************************************)
\* the running frame's loop is at a token that ends it
AtLoopEnd ==
    \/ F.fn = "Parse" /\ P.current.Type = TokenEOF
    \/ F.fn = "parseGroup" /\ P.current.Type \in {TokenRightBrace, TokenEOF}

\* IncludeEnter with the depth compared by > in place of >=
IncludeEnterOneDeeper(t) ==
    IF P.includeDepth > MaxIncludeDepth
    THEN Err(ErrIncludeDepthExceeded, P, FALSE)
    ELSE Ok(advance(WithFrame(P, [F EXCEPT !.pc = "incPath"]), t), TRUE)

\* lines 105-109: the depth check and the advance over @include
IncludeEnter(t) ==
    IF P.includeDepth >= MaxIncludeDepth
    THEN Err(ErrIncludeDepthExceeded, P, FALSE)
    ELSE Ok(advance(WithFrame(P, [F EXCEPT !.pc = "incPath"]), t), TRUE)

\* lines 111-116: the path string
IncludePath(t) ==
    IF P.current.Type # TokenString
    THEN Err(ErrExpectedStringAfterInclude, P, FALSE)
    ELSE Ok(advance(WithFrame(P, [F EXCEPT !.includePath = P.current.Value,
                                           !.pc = "incSemi"]), t), TRUE)

\* lines 118-121: the optional semicolon
IncludeSemicolon(t) ==
    LET p == WithFrame(P, [F EXCEPT !.pc = "incResolve"])
    IN  IF P.current.Type = TokenSemicolon THEN Ok(advance(p, t), TRUE)
        ELSE Ok(p, FALSE)

\* possiblePaths with the .cfg suffix tried before the .cnf suffix
possiblePathsCfgFirst(baseDir, includePath) ==
    LET fullPath == IF baseDir # <<>> THEN Join(baseDir, includePath)
                    ELSE includePath
    IN  <<fullPath, fullPath \o <<".", "c", "f", "g">>,
          fullPath \o <<".", "c", "n", "f">>>>

\* lines 123-136: the paths tried, in order
possiblePaths(baseDir, includePath) ==
    LET fullPath == IF baseDir # <<>> THEN Join(baseDir, includePath)
                    ELSE includePath
    IN  <<fullPath, fullPath \o <<".", "c", "n", "f">>,
          fullPath \o <<".", "c", "f", "g">>>>

\* lines 147-149 and 397-399: parseInclude returns the error e
IncludeFail(e, args) ==
    /\ parsers' = <<>>
    /\ ret' = [done |-> TRUE, config |-> Nil, err |-> e, args |-> args]
    /\ UNCHANGED fs

\* IncludeCall with the including parser's base directory handed on to the
\* parser of the included file
IncludeCallKeepingBaseDir ==
    \E tried \in {possiblePaths(P.baseDir, F.includePath)} :
    \E existingPath \in {FirstExisting(tried)} :
        IF existingPath = <<>>
        THEN IncludeFail(ErrIncludeFileNotFound, <<F.includePath, tried>>)
        ELSE IF ~CanOpen(existingPath) THEN IncludeFail(ErrOpenFile, <<existingPath>>)
        ELSE \E p0 \in {NewParserWithBaseDir(Resolve(existingPath), P.baseDir,
                                             P.includeDepth + 1)} :
             \E t \in NextTokens(p0) :
                /\ fs' = Reveal(p0, t)
                /\ parsers' = Append(SetTop(parsers,
                                            WithFrame(P, [F EXCEPT !.pc = "incCall"])),
                                     advance(p0, t))
                /\ UNCHANGED ret

\* lines 138-152 and parseFileWithDepth: resolve the path, open the file
\* and start a parser on it one level deeper
IncludeCall ==
    \E tried \in {possiblePaths(P.baseDir, F.includePath)} :
    \E existingPath \in {FirstExisting(tried)} :
        IF existingPath = <<>>
        THEN IncludeFail(ErrIncludeFileNotFound, <<F.includePath, tried>>)
        ELSE IF ~CanOpen(existingPath) THEN IncludeFail(ErrOpenFile, <<existingPath>>)
        ELSE \E p0 \in {NewParserWithBaseDir(Resolve(existingPath), Dir(existingPath),
                                             P.includeDepth + 1)} :
             \E t \in NextTokens(p0) :
                /\ fs' = Reveal(p0, t)
                /\ parsers' = Append(SetTop(parsers,
                                            WithFrame(P, [F EXCEPT !.pc = "incCall"])),
                                     advance(p0, t))
                /\ UNCHANGED ret

parseInclude ==
    \/ /\ At({"Parse", "parseGroup"}, {"loop"})
       /\ ~AtLoopEnd
       /\ P.current.Type = TokenInclude
       /\ Step(IncludeEnter)
    \/ /\ At({"Parse", "parseGroup"}, {"incPath"})
       /\ Step(IncludePath)
    \/ /\ At({"Parse", "parseGroup"}, {"incSemi"})
       /\ Step(IncludeSemicolon)
    \/ /\ At({"Parse", "parseGroup"}, {"incResolve"})
       /\ IncludeCall
       /\ UNCHANGED <<uintSize, intVars, lookupVars, lexVars>>

(***************************************************************************)
(* Parser.parseSetting                                                     *)
(***************************************************************************)
\* lines 165-171: the name
SettingName(t) ==
    IF P.current.Type # TokenIdentifier
    THEN Err(ErrExpectedIdentifier, P, FALSE)
    ELSE Ok(advance(WithFrame(P, [F EXCEPT !.name = P.current.Value,
                                           !.pc = "assign"]), t), TRUE)

\* lines 173-178: the assignment operator
SettingAssign(t) ==
    IF P.current.Type # TokenAssign
    THEN Err(ErrExpectedAssignment, P, FALSE)
    ELSE Ok(advance(WithFrame(P, [F EXCEPT !.pc = "value"]), t), TRUE)

parseSetting ==
    \/ /\ At({"Parse", "parseGroup"}, {"loop"})
       /\ ~AtLoopEnd
       /\ P.current.Type # TokenInclude
       /\ Step(SettingName)
    \/ /\ At({"Parse", "parseGroup"}, {"assign"})
       /\ Step(SettingAssign)

(***************************************************************************)
(* Parser.parseValue                                                       *)
(***************************************************************************)
\* the token that closes the running frame's sequence
Closer(f) ==
    IF f.fn = "parseArray" THEN TokenRightBracket ELSE TokenRightParen

\* lines 203-209: the value r of an integer literal, or the error
IntegerLiteral(p, t, r) ==
    IF ~r.ok THEN Err(ErrInvalidInteger, p, FALSE)
    ELSE Deliver(advance(p, t), r.val, TRUE)

\* lines 212-218: the value r of a float literal, or the error
FloatLiteral(p, t, r) ==
    IF ~r.ok THEN Err(ErrInvalidFloat, p, FALSE)
    ELSE Deliver(advance(p, t), NewFloatValue(r.val), TRUE)

\* the switch of parseValue, called from the running frame at call site
\* site; a group, array or list starts a frame of its own after the
\* expect of its opening token
ValueSwitch(site, t) ==
    LET f    == [F EXCEPT !.site = site]
        p    == WithFrame(P, f)
        cur  == P.current
        open(fn, pc) ==
            Ok([advance(p, t) EXCEPT !.frames = Append(@, Frame(fn, pc))],
               TRUE)
    IN  CASE cur.Type = TokenString ->
               Ok(advance(WithFrame(p, [f EXCEPT !.value = cur.Value,
                                                 !.pc = "strcat"]), t), TRUE)
          [] cur.Type = TokenInteger ->
               IntegerLiteral(p, t, parseIntegerLiteral(cur.Value, uintSize))
          [] cur.Type = TokenFloat ->
               FloatLiteral(p, t, ParseFloat(cur.Value))
          [] cur.Type = TokenBoolean ->
               Deliver(advance(p, t),
                       NewBoolValue(cur.Value = <<"t", "r", "u", "e">>), TRUE)
          [] cur.Type = TokenLeftBrace -> open("parseGroup", "loop")
          [] cur.Type = TokenLeftBracket -> open("parseArray", "open")
          [] cur.Type = TokenLeftParen -> open("parseList", "open")
          [] OTHER -> Err(ErrUnexpectedToken, p, FALSE)

\* StringConcat that puts a space between the strings it joins
StringConcatSpaced(t) ==
    IF P.current.Type = TokenString
    THEN Ok(advance(WithFrame(P, [F EXCEPT !.value = @ \o <<" ">>
                                                       \o P.current.Value]),
                    t), TRUE)
    ELSE Deliver(P, NewStringValue(F.value), FALSE)

\* lines 196-201: the concatenation loop over adjacent strings
StringConcat(t) ==
    IF P.current.Type = TokenString
    THEN Ok(advance(WithFrame(P, [F EXCEPT !.value = @ \o P.current.Value]),
                    t), TRUE)
    ELSE Deliver(P, NewStringValue(F.value), FALSE)

ValueOfSetting(t) == ValueSwitch("first", t)

ValueOfFirstElement(t) == ValueSwitch("first", t)

ValueOfNextElement(t) == ValueSwitch("rest", t)

parseValue ==
    \/ /\ At({"Parse", "parseGroup"}, {"value"})
       /\ Step(ValueOfSetting)
    \/ /\ At({"parseArray", "parseList"}, {"open"})
       /\ P.current.Type # Closer(F)
       /\ Step(ValueOfFirstElement)
    \/ /\ At({"parseArray", "parseList"}, {"afterComma"})
       /\ P.current.Type # Closer(F)
       /\ Step(ValueOfNextElement)
    \/ /\ At({"Parse", "parseGroup", "parseArray", "parseList"}, {"strcat"})
       /\ Step(StringConcat)

(***************************************************************************)
(* Parser.parseGroup                                                       *)
(***************************************************************************)
\* GroupClose that takes the end of the input for the closing brace
GroupCloseAtEOF(t) ==
    IF P.current.Type = TokenEOF
    THEN Return(P, NewGroupValue(F.group), FALSE)
    ELSE LET r == expect(P, TokenRightBrace, t)
         IN  IF r.err # "" THEN r
             ELSE Return(r.p, NewGroupValue(F.group), TRUE)

\* lines 278-282: the loop has ended; expect the closing brace and return
GroupClose(t) ==
    LET r == expect(P, TokenRightBrace, t)
    IN  IF r.err # "" THEN r
        ELSE Return(r.p, NewGroupValue(F.group), TRUE)

parseGroup ==
    \/ /\ At({"parseGroup"}, {"loop"})
       /\ AtLoopEnd
       /\ Step(GroupClose)
    \/ /\ At({"parseGroup"}, {"semi"})
       /\ Step(OptionalSemicolon)

(***************************************************************************)
(* Parser.parseArray and Parser.parseList                                  *)
(***************************************************************************)
\* the value a sequence frame returns
SequenceValue(f) ==
    IF f.fn = "parseArray" THEN NewArrayValue(f.elements)
    ELSE NewListValue(f.elements)

\* lines 294-297 / 346-349: the empty sequence
EmptySequence(t) == Return(advance(P, t), SequenceValue(F), TRUE)

\* lines 308-309 / 360-361 and 330-334 / 376-380: a comma continues the
\* loop, anything else must be the closing token
SequenceLoop(t) ==
    IF P.current.Type = TokenComma
    THEN Ok(advance(WithFrame(P, [F EXCEPT !.pc = "afterComma"]), t), TRUE)
    ELSE LET r == expect(P, Closer(F), t)
         IN  IF r.err # "" THEN r ELSE Return(r.p, SequenceValue(F), TRUE)

\* TrailingComma that counts an element after the last comma
TrailingCommaAppending(t) ==
    LET r == expect(P, Closer(F), t)
        f == [F EXCEPT !.elements = Append(@, Value)]
    IN  IF r.err # "" THEN r ELSE Return(r.p, SequenceValue(f), TRUE)

\* lines 311-314 / 363-366: the trailing comma; the break leads to the
\* expect of the closing token
TrailingComma(t) ==
    LET r == expect(P, Closer(F), t)
    IN  IF r.err # "" THEN r ELSE Return(r.p, SequenceValue(F), TRUE)

SequenceStep(fn) ==
    \/ /\ At({fn}, {"open"})
       /\ P.current.Type = Closer(F)
       /\ Step(EmptySequence)
    \/ /\ At({fn}, {"loop"})
       /\ Step(SequenceLoop)
    \/ /\ At({fn}, {"afterComma"})
       /\ P.current.Type = Closer(F)
       /\ Step(TrailingComma)

parseArray == SequenceStep("parseArray")

parseList == SequenceStep("parseList")

(***************************************************************************)
(* Spec: ParseFile on a file system whose files hold any token lists       *)
(***************************************************************************)
NewFile == [tokens |-> <<>>, complete |-> FALSE, readable |-> TRUE]

\* a file that cannot be opened
Unreadable == [tokens |-> <<>>, complete |-> TRUE, readable |-> FALSE]

\* one file m of any tokens; every include of it fails to find its file
Init ==
    /\ uintSize = 64
    /\ literal = <<>>
    /\ litResult = NoLitResult
    /\ fs \in {(<<"m">> :> NewFile), (<<"m">> :> Unreadable)}
    /\ parsers = <<>>
    /\ ret = NoReturn
    /\ config = NewConfig
    /\ lookup = NoLookup
    /\ again = NoLookup
    /\ reader = NoReader
    /\ lexer = NoLexer
    /\ got = NoCall

Next ==
    \/ ParseFile
    \/ Parse
    \/ parseInclude
    \/ parseSetting
    \/ parseValue
    \/ parseGroup
    \/ parseArray
    \/ parseList

Spec == Init /\ [][Next]_vars

(***************************************************************************)
(* SpecInclude: ParseFile on file systems with files to include            *)
(***************************************************************************)
\* longest chain of files each including the next
MaxChain == 13

\* the name of the i-th file of a chain, i counted from 0
ChainName(i) == <<"c", DecDigits[(i \div 10) + 1], DecDigits[(i % 10) + 1]>>

\* the i-th file of a chain of n files: a setting, and an include of the
\* next file in all but the last
ChainFile(i, n) ==
    LET setting == <<Token(TokenIdentifier, <<"a">>),
                     Token(TokenAssign, <<"=">>),
                     Token(TokenInteger, <<"1">>),
                     Token(TokenSemicolon, <<";">>)>>
        include == <<Token(TokenInclude, <<"@", "i", "n", "c", "l", "u", "d", "e">>),
                     Token(TokenString, ChainName(i + 1))>>
    IN  [tokens |-> IF i < n - 1 THEN setting \o include \o <<EOFToken>>
                    ELSE setting \o <<EOFToken>>,
         complete |-> TRUE, readable |-> TRUE]

ChainFileSystem(n) ==
    [path \in {ChainName(i) : i \in 0..(n - 1)} |->
        ChainFile(CHOOSE i \in 0..(n - 1) : ChainName(i) = path, n)]

\* r is the file parsed and holds any tokens; f is absent, unreadable or
\* holds any tokens
OpenFileSystems ==
    { (<<"r">> :> NewFile),
      (<<"r">> :> NewFile) @@ (<<"f">> :> Unreadable),
      (<<"r">> :> NewFile) @@ (<<"f">> :> NewFile) }

\* t holds empty and filled arrays and lists, adjacent strings and a
\* trailing comma:
\*   a = [ ]; b = ( "s" "s", true, ); c = [ "s", "s" ]; d = { e = "s"; }
SampleFile ==
    [tokens |-> <<TokId("a"), TokAssign,
                  Token(TokenLeftBracket, <<"[">>),
                  Token(TokenRightBracket, <<"]">>), TokSemicolon,
                  TokId("b"), TokAssign,
                  Token(TokenLeftParen, <<"(">>), TokStr("s"), TokStr("s"),
                  Token(TokenComma, <<",">>),
                  Token(TokenBoolean, <<"t", "r", "u", "e">>),
                  Token(TokenComma, <<",">>),
                  Token(TokenRightParen, <<")">>), TokSemicolon,
                  TokId("c"), TokAssign,
                  Token(TokenLeftBracket, <<"[">>), TokStr("s"),
                  Token(TokenComma, <<",">>), TokStr("s"),
                  Token(TokenRightBracket, <<"]">>), TokSemicolon,
                  TokId("d"), TokAssign, TokLeftBrace,
                  TokId("e"), TokAssign, TokStr("s"), TokSemicolon,
                  TokRightBrace, EOFToken>>,
     complete |-> TRUE, readable |-> TRUE]

SampleFileSystem == (<<"t">> :> SampleFile)

InitInclude ==
    /\ uintSize = 64
    /\ literal = <<>>
    /\ litResult = NoLitResult
    /\ fs \in OpenFileSystems \cup {SampleFileSystem}
                \cup {ChainFileSystem(n) : n \in 1..MaxChain}
    /\ parsers = <<>>
    /\ ret = NoReturn
    /\ config = NewConfig
    /\ lookup = NoLookup
    /\ again = NoLookup
    /\ reader = NoReader
    /\ lexer = NoLexer
    /\ got = NoCall

SpecInclude == InitInclude /\ [][Next]_vars

(***************************************************************************)
(* SpecCycle: ParseFile on files that can include themselves and each      *)
(* other                                                                   *)
(***************************************************************************)
\* s is the file parsed; s and u hold any tokens of CycleAlphabet, which
\* names both of them
CycleFileSystems ==
    { (<<"s">> :> NewFile),
      (<<"s">> :> NewFile) @@ (<<"u">> :> NewFile) }

InitCycle ==
    /\ uintSize = 64
    /\ literal = <<>>
    /\ litResult = NoLitResult
    /\ fs \in CycleFileSystems \cup {SampleFileSystem}
    /\ parsers = <<>>
    /\ ret = NoReturn
    /\ config = NewConfig
    /\ lookup = NoLookup
    /\ again = NoLookup
    /\ reader = NoReader
    /\ lexer = NoLexer
    /\ got = NoCall

SpecCycle == InitCycle /\ [][Next]_vars

\* a parse is one synchronous call: it keeps running until it returns
SpecCycleFair == SpecCycle /\ WF_vars(Next)

(***************************************************************************)
(* SpecFiles: ParseFile on file systems of whole files, for the way        *)
(* include paths are resolved and the included settings merged             *)
(***************************************************************************)
\* a readable file holding the tokens ts
FileOf(ts) ==
    [tokens |-> ts \o <<EOFToken>>, complete |-> TRUE, readable |-> TRUE]

\* a = "<path>";  the value of a tells which file it was read from
MarkedTokens(path) ==
    <<TokId("a"), TokAssign, Token(TokenString, path), TokSemicolon>>

\* @include "<path>";
IncludeTokens(path) == <<TokInclude, Token(TokenString, path), TokSemicolon>>

\* the files at the paths of S, each marked with its own path
MarkedFiles(S) == [path \in S |-> FileOf(MarkedTokens(path))]

Cnf == <<".", "c", "n", "f">>

Cfg == <<".", "c", "f", "g">>

\* the three paths an include of path in directory dir can mean
Candidates(dir, path) ==
    { Join(dir, path), Join(dir, path) \o Cnf, Join(dir, path) \o Cfg }

\* the directories of the file parsed
RootDirs == {<<".">>, <<"d">>}

\* p, in the working directory or in d, includes "f"; any of f, f.cnf and
\* f.cfg exist next to it, and when p is in d all three exist in the
\* working directory as well
ResolveFileSystemsIn(dir) ==
    { (Join(dir, <<"p">>) :> FileOf(IncludeTokens(<<"f">>)))
        @@ MarkedFiles(S)
        @@ (IF dir = <<".">> THEN <<>>
            ELSE MarkedFiles(Candidates(<<".">>, <<"f">>))) :
      S \in SUBSET Candidates(dir, <<"f">>) }

ResolveFileSystems == UNION { ResolveFileSystemsIn(dir) : dir \in RootDirs }

\* p includes "d/x" and d/x includes "y"; any of y, d/y and d/y.cfg exist
NestedFileSystems ==
    { (<<"p">> :> FileOf(IncludeTokens(<<"d", "/", "x">>)))
        @@ (<<"d", "/", "x">> :> FileOf(IncludeTokens(<<"y">>)))
        @@ MarkedFiles(S) :
      S \in SUBSET {<<"y">>, <<"d", "/", "y">>, <<"d", "/", "y">> \o Cfg} }

\* g = { a = 1; b = 1; }
GroupTokens ==
    <<TokId("g"), TokAssign, TokLeftBrace,
      TokId("a"), TokAssign, TokOne, TokSemicolon,
      TokId("b"), TokAssign, TokOne, TokSemicolon,
      TokRightBrace, TokSemicolon>>

\* g = { a = "f"; }
IncludedGroupTokens ==
    <<TokId("g"), TokAssign, TokLeftBrace>> \o MarkedTokens(<<"f">>)
        \o <<TokRightBrace, TokSemicolon>>

\* p sets the group g and then includes f, which sets g too: at the top
\* level, and inside a group h
ShallowFileSystems ==
    { (<<"p">> :> FileOf(GroupTokens \o IncludeTokens(<<"f">>)))
        @@ (<<"f">> :> FileOf(IncludedGroupTokens)),
      (<<"p">> :> FileOf(<<TokId("h"), TokAssign, TokLeftBrace>>
                          \o GroupTokens \o IncludeTokens(<<"f">>)
                          \o <<TokRightBrace>>))
        @@ (<<"f">> :> FileOf(IncludedGroupTokens)) }

\* include paths that are not clean, the empty path and the paths of
\* directories
UncleanPaths ==
    { <<".", ".", "/", "f">>, <<".", "/", "f">>,
      <<"e", "/", ".", ".", "/", "f">>, <<"/", "f">>, <<"f", "/">>,
      <<"d", "/", "/", "f">>, <<>>, <<".", ".">> }

\* d/p includes a path of UncleanPaths and then sets b; f and d/f exist
UncleanFileSystems ==
    { (<<"d", "/", "p">> :>
            FileOf(IncludeTokens(path)
                    \o <<TokId("b"), TokAssign, TokOne, TokSemicolon>>))
        @@ MarkedFiles({<<"f">>, <<"d", "/", "f">>}) :
      path \in UncleanPaths }

\* most @include directives one after another in one file
MaxSequential == 12

\* n times @include "<path>";
RECURSIVE Includes(_, _)
Includes(n, path) ==
    IF n = 0 THEN <<>> ELSE IncludeTokens(path) \o Includes(n - 1, path)

\* p includes l n times; l holds a = "l"; and includes nothing
SequentialFileSystem(n) ==
    (<<"p">> :> FileOf(Includes(n, <<"l">>))) @@ MarkedFiles({<<"l">>})

\* q is a directory: it holds the file q/x
DirectoryFileSystem == MarkedFiles({<<"q", "/", "x">>})

InitFiles ==
    /\ uintSize = 64
    /\ literal = <<>>
    /\ litResult = NoLitResult
    /\ fs \in ResolveFileSystems \cup NestedFileSystems
                \cup ShallowFileSystems
                \cup UncleanFileSystems
                \cup {SequentialFileSystem(n) : n \in 1..MaxSequential}
                \cup {SampleFileSystem, DirectoryFileSystem, <<>>}
    /\ parsers = <<>>
    /\ ret = NoReturn
    /\ config = NewConfig
    /\ lookup = NoLookup
    /\ again = NoLookup
    /\ reader = NoReader
    /\ lexer = NoLexer
    /\ got = NoCall

SpecFiles == InitFiles /\ [][Next]_vars

(***************************************************************************)
(* SpecLookup: lookups on Configs built with the value constructors        *)
(***************************************************************************)
\* longest lookup path, in characters
MaxPathLen == 4

PathChars == {"a", "b", "."}

Paths == SeqsUpTo(PathChars, MaxPathLen)

Keys == {<<"a">>, <<"b">>}

\* 2^31 and -(2^31 + 1), the first values outside the 32-bit range
Pow31 == [neg |-> FALSE, mag |-> <<0, 32768, 0, 0>>]

BelowMinInt32 == [neg |-> TRUE, mag |-> <<1, 32768, 0, 0>>]

LeafValues ==
    { NewIntValue(Small(1)), NewIntValue(MinInt32),
      NewInt64Value(Small(42)), NewInt64Value(MaxInt32),
      NewInt64Value(MinInt32), NewInt64Value(Pow31),
      NewInt64Value(BelowMinInt32), NewInt64Value(MaxInt64),
      NewInt64Value(MinInt64),
      NewFloatValue(Finite(FALSE, Small(5).mag, -1)), NewBoolValue(TRUE),
      NewStringValue(<<"s">>),
      NewArrayValue(<<NewIntValue(Small(1))>>),
      NewListValue(<<NewStringValue(<<"s">>)>>) }

SmallLeaves == {NewIntValue(Small(1)), NewStringValue(<<"s">>)}

\* groups of at most one setting, nested one and two deep
InnerGroups ==
    {NewGroupValue(<<>>)}
        \cup {NewGroupValue(k :> v) : k \in Keys, v \in SmallLeaves}

OuterGroups == {NewGroupValue(k :> g) : k \in Keys, g \in InnerGroups}

SettingValues == LeafValues \cup InnerGroups \cup OuterGroups

Roots ==
    {NewConfig}
        \cup {NewGroupValue(<<"a">> :> v) : v \in SettingValues}
        \cup {NewGroupValue((<<"a">> :> v) @@ (<<"b">> :> NewIntValue(Small(1)))) :
                v \in SettingValues}

InitLookup ==
    /\ uintSize \in {32, 64}
    /\ literal = <<>>
    /\ litResult = NoLitResult
    /\ fs = <<>>
    /\ parsers = <<>>
    /\ ret = NoReturn
    /\ config \in Roots
    /\ lookup = NoLookup
    /\ again = NoLookup
    /\ reader = NoReader
    /\ lexer = NoLexer
    /\ got = NoCall

\* the results of the call fn(path) on the Config with Root root
ResultOf(root, size, fn, path) ==
    CASE fn = "Lookup" ->
            [NoLookup EXCEPT !.fn = fn, !.path = path,
                             !.err = Lookup(root, path).err,
                             !.nil = Lookup(root, path).nil,
                             !.val = Lookup(root, path).val]
      [] fn = "LookupInt" ->
            [NoLookup EXCEPT !.fn = fn, !.path = path,
                             !.err = LookupInt(root, path, size).err,
                             !.int = LookupInt(root, path, size).int]
      [] fn = "LookupInt64" ->
            [NoLookup EXCEPT !.fn = fn, !.path = path,
                             !.err = LookupInt64(root, path).err,
                             !.int = LookupInt64(root, path).int]
      [] fn = "LookupFloat" ->
            [NoLookup EXCEPT !.fn = fn, !.path = path,
                             !.err = LookupFloat(root, path).err,
                             !.float = LookupFloat(root, path).float]
      [] fn = "LookupBool" ->
            [NoLookup EXCEPT !.fn = fn, !.path = path,
                             !.err = LookupBool(root, path).err,
                             !.bool = LookupBool(root, path).bool]
      [] fn = "LookupString" ->
            [NoLookup EXCEPT !.fn = fn, !.path = path,
                             !.err = LookupString(root, path).err,
                             !.str = LookupString(root, path).str]

\* a call that leaves the value it found as the Root of the Config
CallMovingRoot(fn) ==
    \E path \in Paths :
        /\ lookup.fn = ""
        /\ lookup' = ResultOf(config, uintSize, fn, path)
        /\ config' = IF Lookup(config, path).err = ""
                     THEN Lookup(config, path).val
                     ELSE config
        /\ UNCHANGED <<uintSize, intVars, parseVars, again, lexVars>>

\* a call c.fn(path): the functions read the Config and assign nothing
Call(fn) ==
    \E path \in Paths :
        /\ lookup.fn = ""
        /\ lookup' = ResultOf(config, uintSize, fn, path)
        /\ UNCHANGED <<uintSize, intVars, parseVars, config, again, lexVars>>

CallLookup == Call("Lookup")

CallLookupInt == Call("LookupInt")

CallLookupInt64 == Call("LookupInt64")

CallLookupFloat == Call("LookupFloat")

CallLookupBool == Call("LookupBool")

CallLookupString == Call("LookupString")

\* the caller makes the call it has just made once more
Repeat ==
    /\ lookup.fn # ""
    /\ again.fn = ""
    /\ again' = ResultOf(config, uintSize, lookup.fn, lookup.path)
    /\ UNCHANGED <<uintSize, intVars, parseVars, config, lookup, lexVars>>

\* the caller is done with the results of a call; the next call can follow
Forget ==
    /\ lookup.fn # ""
    /\ lookup' = NoLookup
    /\ again' = NoLookup
    /\ UNCHANGED <<uintSize, intVars, parseVars, config, lexVars>>

NextLookup ==
    \/ CallLookup
    \/ CallLookupInt
    \/ CallLookupInt64
    \/ CallLookupFloat
    \/ CallLookupBool
    \/ CallLookupString
    \/ Repeat
    \/ Forget

SpecLookup == InitLookup /\ [][NextLookup]_vars

(***************************************************************************)
(* SpecParse: the parses of Spec and of SpecInclude together               *)
(***************************************************************************)
SpecParse == (Init \/ InitInclude) /\ [][Next]_vars

(***************************************************************************)
(* The lexer: NewLexer, tokenize, NextToken and PeekToken                  *)
(*                                                                         *)
(* The input is a sequence of bytes 0..255.  The lexer reads it a byte at  *)
(* a time, rune(l.input[l.pos]), so a rune is the code of one byte; what   *)
(* it writes to a token's Value is the UTF-8 encoding of the rune.         *)
(***************************************************************************)
NUL == 0

LF == 10

\* unicode.IsSpace on a rune below 256: \t \n \v \f \r, space, NEL, NBSP
IsSpace(r) == r \in {9, 10, 11, 12, 13, 32, 133, 160}

\* unicode.IsDigit on a rune below 256
IsDigitRune(r) == r \in Code("0")..Code("9")

\* unicode.IsLetter on a rune below 256: the ASCII letters and the letters
\* of Latin-1
IsLetter(r) ==
    \/ r \in Code("A")..Code("Z")
    \/ r \in Code("a")..Code("z")
    \/ r \in {170, 181, 186}
    \/ r \in (192..255) \ {215, 247}

IsHexDigit(r) ==
    \/ r \in Code("0")..Code("9")
    \/ r \in Code("a")..Code("f")
    \/ r \in Code("A")..Code("F")

\* strings.Builder.WriteRune and string(rune) for a rune below 256: one
\* byte below 128, the two bytes of its UTF-8 encoding from 128 on
WriteRune(r) ==
    IF r < 128 THEN <<r>>
    ELSE <<192 + (r \div 64), 128 + (r % 64)>>

\* Lexer.advance: at the last byte current becomes 0 and nothing else moves
LexerAdvance(l) ==
    IF l.pos >= Len(l.input) - 1 THEN [l EXCEPT !.current = NUL]
    ELSE [l EXCEPT !.line = IF l.current = LF THEN @ + 1 ELSE @,
                   !.column = IF l.current = LF THEN 1 ELSE @ + 1,
                   !.pos = @ + 1,
                   !.current = l.input[l.pos + 2]]

\* Lexer.peek
peek(l) ==
    IF l.pos + 1 >= Len(l.input) THEN NUL ELSE l.input[l.pos + 2]

\* Lexer.skipWhitespace
RECURSIVE skipWhitespace(_)
skipWhitespace(l) ==
    IF IsSpace(l.current) THEN skipWhitespace(LexerAdvance(l)) ELSE l

\* the loop of skipComment for // and #: to the end of the line
RECURSIVE SkipLine(_)
SkipLine(l) ==
    IF l.current # LF /\ l.current # NUL THEN SkipLine(LexerAdvance(l)) ELSE l

\* the loop of skipComment for /* : past the next */
RECURSIVE SkipBlock(_)
SkipBlock(l) ==
    IF l.current = NUL THEN l
    ELSE IF l.current = Code("*") /\ peek(l) = Code("/")
    THEN LexerAdvance(LexerAdvance(l))
    ELSE SkipBlock(LexerAdvance(l))

\* Lexer.skipComment: the Lexer after it, and whether it skipped a comment
skipComment(l) ==
    IF l.current = Code("/")
    THEN IF peek(l) = Code("/") THEN [l |-> SkipLine(l), skipped |-> TRUE]
         ELSE IF peek(l) = Code("*")
         THEN [l |-> SkipBlock(LexerAdvance(LexerAdvance(l))), skipped |-> TRUE]
         ELSE [l |-> l, skipped |-> FALSE]
    ELSE IF l.current = Code("#") THEN [l |-> SkipLine(l), skipped |-> TRUE]
    ELSE [l |-> l, skipped |-> FALSE]

\* the runes of the loops of readNumber and readIdentifier
Digits == {r \in 0..255 : IsDigitRune(r)}

HexDigits == {r \in 0..255 : IsHexDigit(r)}

BinaryDigits == {Code("0"), Code("1")}

OctalDigits == Code("0")..Code("7")

IdentifierRunes ==
    {r \in 0..255 : \/ IsLetter(r) \/ IsDigitRune(r)
                    \/ r \in {Code("_"), Code("-"), Code("*")}}

\* for S(l.current) { result.WriteRune(l.current); l.advance() }
RECURSIVE ReadWhile(_, _, _)
ReadWhile(l, result, S) ==
    IF l.current \in S
    THEN ReadWhile(LexerAdvance(l), result \o WriteRune(l.current), S)
    ELSE [l |-> l, value |-> result]

\* the value of a hexadecimal digit
HexValue(r) ==
    IF r \in Code("0")..Code("9") THEN r - Code("0")
    ELSE IF r \in Code("a")..Code("f") THEN r - Code("a") + 10
    ELSE r - Code("A") + 10

\* strconv.ParseInt(hex, 16, 8) on two hexadecimal digits: a value above
\* the largest int8 is out of range, an error
ParseIntHex8(hex) ==
    LET val == 16 * HexValue(hex[1]) + HexValue(hex[2])
    IN  [val |-> val, ok |-> val <= 127]

\* what readString writes for the one-character escapes it knows
Escapes ==
    (Code("n") :> 10) @@ (Code("r") :> 13) @@ (Code("t") :> 9)
        @@ (Code("b") :> 8) @@ (Code("f") :> 12) @@ (Code("a") :> 7)
        @@ (Code("v") :> 11) @@ (Code("\\") :> Code("\\"))
        @@ (Code("\"") :> Code("\""))

\* the loop over the digits of \xNN: at most two hexadecimal digits
RECURSIVE ReadHex(_, _, _)
ReadHex(l, hex, i) ==
    IF i < 2 /\ l.current # NUL /\ IsHexDigit(l.current)
    THEN ReadHex(LexerAdvance(l), Append(hex, l.current), i + 1)
    ELSE [l |-> l, hex |-> hex]

\* the loop of readString, result being what is written so far
RECURSIVE ReadStringLoop(_, _)
ReadStringLoop(l, result) ==
    IF l.current = Code("\"") \/ l.current = NUL
    THEN [l |-> l, value |-> result]
    ELSE IF l.current = Code("\\")
    THEN LET e == LexerAdvance(l)
         IN  IF e.current \in DOMAIN Escapes
             THEN ReadStringLoop(LexerAdvance(e),
                                 result \o WriteRune(Escapes[e.current]))
             ELSE IF e.current = Code("x")
             THEN LET h == ReadHex(LexerAdvance(e), <<>>, 0)
                  IN  IF Len(h.hex) = 2 /\ ParseIntHex8(h.hex).ok
                      THEN ReadStringLoop(h.l,
                              result \o WriteRune(ParseIntHex8(h.hex).val))
                      ELSE ReadStringLoop(h.l, result)
             ELSE ReadStringLoop(LexerAdvance(e),
                                 result \o WriteRune(e.current))
    ELSE ReadStringLoop(LexerAdvance(l), result \o WriteRune(l.current))

\* readString that returns nothing for a string with no closing quote
readStringClosedOnly(l) ==
    LET r == ReadStringLoop(LexerAdvance(l), <<>>)
    IN  IF r.l.current = Code("\"")
        THEN [l |-> LexerAdvance(r.l), value |-> r.value]
        ELSE [l |-> r.l, value |-> <<>>]

\* Lexer.readString, called at the opening quote
readString(l) ==
    LET r == ReadStringLoop(LexerAdvance(l), <<>>)
    IN  IF r.l.current = Code("\"")
        THEN [l |-> LexerAdvance(r.l), value |-> r.value]
        ELSE r

\* Lexer.readIdentifier
readIdentifier(l) == ReadWhile(l, <<>>, IdentifierRunes)

\* readNumber up to the decimal point: the prefixes 0x, 0b, 0o and 0q, or
\* decimal digits
ReadDigits(l) ==
    IF l.current = Code("0")
    THEN LET z == LexerAdvance(l)
             r == WriteRune(l.current) \o WriteRune(z.current)
         IN  IF z.current \in {Code("x"), Code("X")}
             THEN ReadWhile(LexerAdvance(z), r, HexDigits)
             ELSE IF z.current \in {Code("b"), Code("B")}
             THEN ReadWhile(LexerAdvance(z), r, BinaryDigits)
             ELSE IF z.current \in {Code("o"), Code("O"), Code("q"), Code("Q")}
             THEN ReadWhile(LexerAdvance(z), r, OctalDigits)
             ELSE ReadWhile(z, WriteRune(l.current), Digits)
    ELSE ReadWhile(l, <<>>, Digits)

\* readNumber from the decimal point on
ReadFraction(n) ==
    IF n.l.current = Code(".") /\ IsDigitRune(peek(n.l))
    THEN ReadWhile(LexerAdvance(n.l), n.value \o WriteRune(n.l.current), Digits)
            @@ [type |-> TokenFloat]
    ELSE n

ReadExponent(n) ==
    IF n.l.current \in {Code("e"), Code("E")}
    THEN LET e == LexerAdvance(n.l)
             r == n.value \o WriteRune(n.l.current)
         IN  (IF e.current \in {Code("+"), Code("-")}
              THEN ReadWhile(LexerAdvance(e), r \o WriteRune(e.current), Digits)
              ELSE ReadWhile(e, r, Digits))
                @@ [type |-> TokenFloat]
    ELSE n

ReadSuffix(n) ==
    IF n.l.current \in {Code("L"), Code("l")}
    THEN [n EXCEPT !.l = LexerAdvance(n.l),
                   !.value = @ \o WriteRune(n.l.current)]
    ELSE n

\* Lexer.readNumber: the Lexer after it, the token type and the text
readNumber(l) ==
    ReadSuffix(ReadExponent(ReadFraction(ReadDigits(l) @@ [type |-> TokenInteger])))

\* a Token of the lexer
LexToken(type, value, line, column) ==
    [Value |-> value, Type |-> type, Line |-> line, Column |-> column]

\* the token type of the one-character tokens
Punctuation ==
    (Code("=") :> TokenAssign) @@ (Code(":") :> TokenAssign)
        @@ (Code(";") :> TokenSemicolon) @@ (Code(",") :> TokenComma)
        @@ (Code("{") :> TokenLeftBrace) @@ (Code("}") :> TokenRightBrace)
        @@ (Code("[") :> TokenLeftBracket) @@ (Code("]") :> TokenRightBracket)
        @@ (Code("(") :> TokenLeftParen) @@ (Code(")") :> TokenRightParen)

\* strings.ToLower on the bytes of an identifier.  readIdentifier writes
\* the UTF-8 encoding of runes below 256 only, so a byte stands alone (an
\* ASCII character) or is the second of the two bytes of a rune of Latin-1;
\* the capitals are A..Z and U+00C0..U+00DE without U+00D7 (bytes 195, 128
\* .. 195, 158), each 32 below its small letter
ToLower(s) ==
    [i \in DOMAIN s |->
        IF s[i] \in Code("A")..Code("Z") THEN s[i] + 32
        ELSE IF i > 1 /\ s[i - 1] = 195 /\ s[i] \in (128..158) \ {151}
        THEN s[i] + 32
        ELSE s[i]]

\* l with the token appended to l.tokens
Emit(l, type, value, line, column) ==
    [l EXCEPT !.tokens = Append(@, LexToken(type, value, line, column))]

\* the switch of tokenize at the rune l.current of a token
TokenAt(l, startLine, startColumn) ==
    IF l.current \in DOMAIN Punctuation
    THEN LexerAdvance(Emit(l, Punctuation[l.current], WriteRune(l.current),
                           startLine, startColumn))
    ELSE IF l.current = Code("\"")
    THEN LET s == readString(l)
         IN  Emit(s.l, TokenString, s.value, startLine, startColumn)
    ELSE IF l.current = Code("@")
    THEN LET a == LexerAdvance(l)
         IN  IF a.current = Code("i")
             THEN LET ident == readIdentifier(a)
                  IN  IF ident.value = Bytes(<<"i","n","c","l","u","d","e">>)
                      THEN Emit(ident.l, TokenInclude,
                                Bytes(<<"@","i","n","c","l","u","d","e">>),
                                startLine, startColumn)
                      ELSE Emit(ident.l, TokenError,
                                <<Code("@")>> \o ident.value,
                                startLine, startColumn)
             ELSE Emit(a, TokenError, <<Code("@")>>, startLine, startColumn)
    ELSE IF IsDigitRune(l.current) \/ (l.current = Code("-") /\ IsDigitRune(peek(l)))
    THEN LET sign == IF l.current = Code("-") THEN <<Code("-")>> ELSE <<>>
             n    == readNumber(IF l.current = Code("-")
                                THEN LexerAdvance(l) ELSE l)
         IN  Emit(n.l, n.type, sign \o n.value, startLine, startColumn)
    ELSE IF IsLetter(l.current) \/ l.current \in {Code("_"), Code("*")}
    THEN LET ident == readIdentifier(l)
             lower == ToLower(ident.value)
         IN  IF lower \in {Bytes(<<"t","r","u","e">>),
                           Bytes(<<"f","a","l","s","e">>)}
             THEN Emit(ident.l, TokenBoolean, lower, startLine, startColumn)
             ELSE Emit(ident.l, TokenIdentifier, ident.value,
                       startLine, startColumn)
    ELSE LexerAdvance(Emit(l, TokenError, WriteRune(l.current),
                           startLine, startColumn))

\* one pass of the loop of tokenize, entered with l.current # 0: the
\* position is taken, whitespace skipped, and then the loop breaks at the
\* end, continues past a comment or appends a token
TokenizePass(l) ==
    LET s == skipWhitespace(l)
    IN  IF s.current = NUL THEN s
        ELSE IF skipComment(s).skipped THEN skipComment(s).l
        ELSE TokenAt(s, l.line, l.column)

\* the end of tokenize: the EOF token at the position the lexer stopped at
TokenizeEnd(l) ==
    [Emit(l, TokenEOF, <<>>, l.line, l.column) EXCEPT !.pc = "done"]

\* Lexer.tokenize as a whole
RECURSIVE Tokenize(_)
Tokenize(l) ==
    IF l.current = NUL THEN TokenizeEnd(l) ELSE Tokenize(TokenizePass(l))

\* NewLexer up to the call of tokenize; for a Reader that fails, the empty
\* Lexer with its one EOF token, on which tokenize is not called
NewLexerOf(r) ==
    IF r.fails
    THEN [NoLexer EXCEPT !.pc = "done",
                         !.tokens = <<LexToken(TokenEOF, <<>>, 1, 1)>>]
    ELSE [NoLexer EXCEPT !.pc = "tokenize",
                         !.input = r.text,
                         !.current = IF Len(r.text) > 0 THEN r.text[1] ELSE NUL]

\* NewLexer as a whole: the Lexer it returns
Lexed(r) ==
    IF r.fails THEN NewLexerOf(r) ELSE Tokenize(NewLexerOf(r))

\* the EOF token NextToken and PeekToken make up past the last token
PastEnd(l) == LexToken(TokenEOF, <<>>, l.line, l.column)

(***************************************************************************)
(* SpecLex: a Lexer made on a Reader, and the token calls on it            *)
(***************************************************************************)
\* longest input drawn from LexBytes
MaxInputLen == 4

\* a letter, a digit, the assignment, blank and newline, the quote and the
\* backslash, the comment characters, a character of no token, the NUL
\* byte and a byte of a UTF-8 sequence
LexBytes ==
    {Code("a"), Code("1"), Code("="), Code(" "), LF, Code("\""), Code("\\"),
     Code("/"), Code("*"), Code("#"), Code("$"), NUL, 233}

\* the string literals "\xHH", for all hexadecimal digits H
HexEscapes ==
    {<<Code("\""), Code("\\"), Code("x"), h1, h2, Code("\"")>> :
        h1 \in HexDigits, h2 \in HexDigits}

\* the string literals "\c", for every byte c
CharEscapes == {<<Code("\""), Code("\\"), c, Code("\"")>> : c \in 0..255}

\* the pattern of TestEscapeSequenceInRegex, and inputs with every kind of
\* token, comment and number
LexSamples ==
    { Bytes(<<"t", "e", "s", "t", "_", "p", "a", "t", "t", "e", "r", "n",
              " ", "=", " ", "\"", "\\", "/", "\\", "*", "\\", "s", "*", "d",
              "d", "e", "=", "'", "(", "[", "^", "*", "]", "|", "\\", "*",
              "[", "^", "\\", "/", "]", "|", ")", "*", "\\", "*", "\\", "/",
              "\\", "s", "*", "$", "\"", ";">>),
      Bytes(<<"i", "n", "v", "a", "l", "i", "d", " ", "s", "y", "n", "t",
              "a", "x", " ", "h", "e", "r", "e">>),
      Bytes(<<"a", " ", "=", " ", "1", ";">>)
      \o <<LF>> \o Bytes(<<"b", ":", "[", "1", ",", "2", "]", ";">>),
      Bytes(<<"/", "*", "c", "*", "/", "a", "=", "(", "T", "r", "u", "e",
              ",", "-", "1", ".", "5", "e", "+", "3", ",", "0", "x", "F",
              "f", "L", ")", "/", "/", "c">>),
      Bytes(<<"@", "i", "n", "c", "l", "u", "d", "e", " ", "\"", "f", "\"",
              ";", "@", "i", "f", "{", "x", "=", "0", "b", "1", ";", "y",
              "=", "0", "o", "7", ";", "}", "@">>) }

LexInputs ==
    SeqsUpTo(LexBytes, MaxInputLen) \cup HexEscapes \cup CharEscapes
        \cup LexSamples

\* the Readers: one for every input, and one that fails
LexReaders ==
    {[text |-> t, fails |-> FALSE] : t \in LexInputs}
        \cup {[text |-> <<>>, fails |-> TRUE]}

InitLex ==
    /\ uintSize = 64
    /\ literal = <<>>
    /\ litResult = NoLitResult
    /\ fs = <<>>
    /\ parsers = <<>>
    /\ ret = NoReturn
    /\ config = NewConfig
    /\ lookup = NoLookup
    /\ again = NoLookup
    /\ reader \in LexReaders
    /\ lexer = NoLexer
    /\ got = NoCall

\* NewLexer(reader), up to the call of tokenize
NewLexer ==
    /\ lexer.pc = "none"
    /\ lexer' = NewLexerOf(reader)
    /\ UNCHANGED <<uintSize, intVars, parseVars, lookupVars, reader, got>>

\* one pass of the loop of tokenize, or its end
tokenize ==
    /\ lexer.pc = "tokenize"
    /\ lexer' = IF lexer.current = NUL THEN TokenizeEnd(lexer)
                ELSE TokenizePass(lexer)
    /\ UNCHANGED <<uintSize, intVars, parseVars, lookupVars, reader, got>>

\* Lexer.NextToken
NextToken ==
    /\ lexer.pc = "done"
    /\ IF lexer.tokenPos >= Len(lexer.tokens)
       THEN /\ got' = [fn |-> "NextToken", token |-> PastEnd(lexer)]
            /\ UNCHANGED lexer
       ELSE /\ got' = [fn |-> "NextToken",
                       token |-> lexer.tokens[lexer.tokenPos + 1]]
            /\ lexer' = [lexer EXCEPT !.tokenPos = @ + 1]
    /\ UNCHANGED <<uintSize, intVars, parseVars, lookupVars, reader>>

\* a PeekToken that consumes the token it returns
PeekTokenConsuming ==
    /\ lexer.pc = "done"
    /\ got' = [fn |-> "PeekToken",
               token |-> IF lexer.tokenPos >= Len(lexer.tokens)
                         THEN PastEnd(lexer)
                         ELSE lexer.tokens[lexer.tokenPos + 1]]
    /\ lexer' = [lexer EXCEPT !.tokenPos =
                    IF @ >= Len(lexer.tokens) THEN @ ELSE @ + 1]
    /\ UNCHANGED <<uintSize, intVars, parseVars, lookupVars, reader>>

\* Lexer.PeekToken
PeekToken ==
    /\ lexer.pc = "done"
    /\ got' = [fn |-> "PeekToken",
               token |-> IF lexer.tokenPos >= Len(lexer.tokens)
                         THEN PastEnd(lexer)
                         ELSE lexer.tokens[lexer.tokenPos + 1]]
    /\ UNCHANGED <<uintSize, intVars, parseVars, lookupVars, reader, lexer>>

NextLex ==
    \/ NewLexer
    \/ tokenize
    \/ NextToken
    \/ PeekToken

SpecLex == InitLex /\ [][NextLex]_vars

\* NewLexer is one synchronous call: once made, it runs until it returns
SpecLexFair == SpecLex /\ WF_vars(NewLexer) /\ WF_vars(tokenize)

(***************************************************************************)
(* SpecText: Parse on a Reader, the lexer and the parser together          *)
(***************************************************************************)
\* the tokens as the parser model reads them: the Value as a Go string of
\* the model
ParserTokens(tokens) ==
    [i \in DOMAIN tokens |-> [tokens[i] EXCEPT !.Value = Chars(@)]]

\* NewParser(lexer) before its advance: no base directory, depth 0
NewParser(file) == NewParserWithBaseDir(file, <<>>, 0)

\* longest text drawn from TextBytes
MaxTextLen == 4

TextBytes ==
    {Code("a"), Code("="), Code("1"), Code(";"), Code(" "), Code("\""), LF}

\* adjacent strings with escapes and empty strings, at a setting and in an
\* array:
\*   s = "x\n" "" "\x41y" "z"; t = [ "a" "b", "" "" ];
ConcatText ==
    Bytes(<<"s", " ", "=", " ", "\"", "x", "\\", "n", "\"", " ", "\"", "\"",
            " ", "\"", "\\", "x", "4", "1", "y", "\"", " ", "\"", "z", "\"",
            ";", " ", "t", " ", "=", " ", "[", " ", "\"", "a", "\"", " ",
            "\"", "b", "\"", ",", " ", "\"", "\"", " ", "\"", "\"", " ", "]",
            ";">>)

\* arrays and lists that end in a comma:
\*   a = ["a","b",]; l = (1, "x", ); n = [[1,],[2,3,],];
TrailingCommaText ==
    Bytes(<<"a", " ", "=", " ", "[", "\"", "a", "\"", ",", "\"", "b", "\"",
            ",", "]", ";", " ", "l", " ", "=", " ", "(", "1", ",", " ",
            "\"", "x", "\"", ",", " ", ")", ";", " ", "n", " ", "=", " ",
            "[", "[", "1", ",", "]", ",", "[", "2", ",", "3", ",", "]",
            ",", "]", ";">>)

\* integers written with a base prefix:
\*   a = 0xFF; b = 0b1010; c = 0o755; d = 0XfF; e = 0B1010; f = 0O755; g = 0q755; h = 0Q755;
PrefixedText ==
    Bytes(<<"a", " ", "=", " ", "0", "x", "F", "F", ";", " ", "b", " ",
            "=", " ", "0", "b", "1", "0", "1", "0", ";", " ", "c", " ",
            "=", " ", "0", "o", "7", "5", "5", ";", " ", "d", " ", "=",
            " ", "0", "X", "f", "F", ";", " ", "e", " ", "=", " ", "0",
            "B", "1", "0", "1", "0", ";", " ", "f", " ", "=", " ", "0",
            "O", "7", "5", "5", ";", " ", "g", " ", "=", " ", "0", "q",
            "7", "5", "5", ";", " ", "h", " ", "=", " ", "0", "Q", "7",
            "5", "5", ";">>)

\* a string that is not closed:
\*   name = "abc
UnterminatedText ==
    Bytes(<<"n", "a", "m", "e", " ", "=", " ", "\"", "a", "b", "c">>)

\* the letters that make a base prefix after a 0, and their bases
PrefixLetters == {"x", "X", "b", "B", "o", "O", "q", "Q"}

BaseOf(letter) ==
    IF letter \in {"x", "X"} THEN 16
    ELSE IF letter \in {"b", "B"} THEN 2
    ELSE 8

\* most digits after a base prefix
MaxDigits == 3

DigitChars == {"0", "1", "7", "a", "F"}

\* 0, a prefix letter and one to MaxDigits digits
PrefixedLiterals ==
    { <<"0", p>> \o d :
        p \in PrefixLetters, d \in SeqsUpTo(DigitChars, MaxDigits) \ {<<>>} }

\* a=<literal>;
PrefixedTexts == { Bytes(<<"a", "=">> \o lit \o <<";">>) : lit \in PrefixedLiterals }

\* more strings that are not closed: one that ends in a backslash, one
\* that ends in an escaped quote, one cut short in a \x escape, one that
\* holds a NUL byte and one after a string that is closed
UnterminatedTexts ==
    { Bytes(<<"n", " ", "=", " ", "\"", "a", "b", "\\">>),
      Bytes(<<"n", " ", "=", " ", "\"", "a", "\\", "\"">>),
      Bytes(<<"n", " ", "=", " ", "\"", "\\", "x", "4">>),
      Bytes(<<"n", " ", "=", " ", "\"", "a">>) \o <<NUL>> \o Bytes(<<"b">>),
      Bytes(<<"a", " ", "=", " ", "\"", "b", "\"", " ", "\"", "c">>) }

\* the example of the README, a text with every construct of the grammar
\* and an include of a file that does not exist, and a text with an error
\* on its second line
TextSamples ==
    { Bytes(<<"i", "n", "v", "a", "l", "i", "d", " ", "s", "y", "n", "t",
              "a", "x", " ", "h", "e", "r", "e">>),
      Bytes(<<"a", " ", "=", " ", "[", " ", "]", ";", " ", "b", " ", "=",
              " ", "(", " ", "\"", "s", "\"", " ", "\"", "s", "\"", ",", " ",
              "t", "r", "u", "e", ",", " ", "1", ".", "5", ",", " ", ")",
              ";", " ", "c", " ", "=", " ", "[", " ", "1", ",", " ", "2",
              " ", "]", ";">>)
      \o <<LF>> \o Bytes(<<"g", " ", "=", " ", "{", " ", "f", " ", "=", " ", "1", " ",
              "}">>)
      \o <<LF>> \o Bytes(<<"d", " ", "=", " ", "{", " ", "e", " ", "=", " ", "2", "L",
              ";", " ", "@", "i", "n", "c", "l", "u", "d", "e", " ", "\"",
              "x", "\"", ";", " ", "}">>),
      Bytes(<<"x", " ", "=">>)
      \o <<LF>> \o Bytes(<<";">>),
      ConcatText, TrailingCommaText, PrefixedText, UnterminatedText }
        \cup UnterminatedTexts

\* texts that include a file, a path that is not clean, the empty path
\* and a directory:
\*   @include "f"; b = 1;     @include "./f"     b = 1; @include "";
\*   @include "d"; b = 1;     g = { @include "d/../f" }
IncludeTexts ==
    { Bytes(<<"@", "i", "n", "c", "l", "u", "d", "e", " ", "\"", "f", "\"",
              ";", " ", "b", " ", "=", " ", "1", ";">>),
      Bytes(<<"@", "i", "n", "c", "l", "u", "d", "e", " ", "\"", ".", "/",
              "f", "\"">>),
      Bytes(<<"b", " ", "=", " ", "1", ";", " ", "@", "i", "n", "c", "l",
              "u", "d", "e", " ", "\"", "\"", ";">>),
      Bytes(<<"@", "i", "n", "c", "l", "u", "d", "e", " ", "\"", "d", "\"",
              ";", " ", "b", " ", "=", " ", "1", ";">>),
      Bytes(<<"g", " ", "=", " ", "{", " ", "@", "i", "n", "c", "l", "u",
              "d", "e", " ", "\"", "d", "/", ".", ".", "/", "f", "\"", " ",
              "}">>) }

\* the files next to a text that includes: none, f, or f.cnf and d/f
TextFileSystems ==
    { <<>>, MarkedFiles({<<"f">>}),
      MarkedFiles({<<"f">> \o Cnf, <<"d", "/", "f">>}) }

\* the Readers of ParseString on a text, and one that fails
TextReaders ==
    {[text |-> t, fails |-> FALSE] :
        t \in SeqsUpTo(TextBytes, MaxTextLen) \cup TextSamples
                \cup PrefixedTexts \cup IncludeTexts}
        \cup {[text |-> <<>>, fails |-> TRUE]}

InitText ==
    /\ uintSize \in {32, 64}
    /\ literal = <<>>
    /\ litResult = NoLitResult
    /\ reader \in TextReaders
    /\ fs \in IF reader.text \in IncludeTexts THEN TextFileSystems ELSE {<<>>}
    /\ parsers = <<>>
    /\ ret = NoReturn
    /\ config = NewConfig
    /\ lookup = NoLookup
    /\ again = NoLookup
    /\ lexer = NoLexer
    /\ got = NoCall

\* Parse(reader): NewLexer reads and tokenizes the Reader, NewParser takes
\* the first token, and Parse is entered
ParseReader ==
    /\ parsers = <<>>
    /\ ~ret.done
    /\ lexer.pc = "none"
    /\ LET l == Lexed(reader)
           tokens == ParserTokens(l.tokens)
       IN  /\ lexer' = [l EXCEPT !.tokenPos = 1]
           /\ fs' = (ReaderFile :> [tokens |-> tokens, complete |-> TRUE,
                                    readable |-> TRUE]) @@ fs
           /\ parsers' = <<[NewParser(ReaderFile) EXCEPT !.current = tokens[1],
                                                         !.tokenPos = 1]>>
    /\ UNCHANGED <<uintSize, intVars, ret, lookupVars, reader, got>>

NextText ==
    \/ ParseReader
    \/ Parse
    \/ parseInclude
    \/ parseSetting
    \/ parseValue
    \/ parseGroup
    \/ parseArray
    \/ parseList

SpecText == InitText /\ [][NextText]_vars

(***************************************************************************)
(* C1: array homogeneity                                                   *)
(***************************************************************************)
\* every Array in the tree of v has elements of one Type
RECURSIVE ArraysHomogeneous(_)
ArraysHomogeneous(v) ==
    /\ \A i \in DOMAIN v.ArrayVal :
        /\ v.ArrayVal[i].Type = v.ArrayVal[1].Type
        /\ ArraysHomogeneous(v.ArrayVal[i])
    /\ \A i \in DOMAIN v.ListVal : ArraysHomogeneous(v.ListVal[i])
    /\ \A k \in DOMAIN v.GroupVal : ArraysHomogeneous(v.GroupVal[k])

\* the running frame is about to return to the frame below it
Returning ==
    \/ At({"parseGroup"}, {"loop"}) /\ P.current.Type = TokenRightBrace
    \/ /\ At({"parseArray", "parseList"}, {"open", "loop", "afterComma"})
       /\ P.current.Type = Closer(F)

\* the array frame that the next step hands a later element to, and the
\* Type of that element: a scalar token after a comma, the end of a run of
\* strings, or a group, array or list that closes inside the array
ElementPending ==
    \/ /\ At({"parseArray"}, {"afterComma"})
       /\ \/ P.current.Type \in {TokenFloat, TokenBoolean}
          \/ /\ P.current.Type = TokenInteger
             /\ parseIntegerLiteral(P.current.Value, uintSize).ok
    \/ At({"parseArray"}, {"strcat"}) /\ F.site = "rest"
                                      /\ P.current.Type # TokenString
    \/ /\ Returning
       /\ Len(P.frames) > 1
       /\ P.frames[Len(P.frames) - 1].fn = "parseArray"
       /\ P.frames[Len(P.frames) - 1].site = "rest"

PendingArray == IF Returning THEN P.frames[Len(P.frames) - 1] ELSE F

PendingType ==
    IF Returning
    THEN (IF F.fn = "parseGroup" THEN TypeGroup
          ELSE IF F.fn = "parseArray" THEN TypeArray ELSE TypeList)
    ELSE IF F.pc = "strcat" THEN TypeString
    ELSE IF P.current.Type = TokenFloat THEN TypeFloat
    ELSE IF P.current.Type = TokenBoolean THEN TypeBool
    ELSE IF HasSuffix(P.current.Value, "L") THEN TypeInt64 ELSE TypeInt

\* C1: after a successful parse every Array of the tree, however nested,
\* holds elements of one Type, and a later element whose Type differs from
\* the first element's makes the parse fail with ErrArrayTypeMismatch
C1_ArrayHomogeneity ==
    /\ []((ret.done /\ ret.err = "") => ArraysHomogeneous(ret.config.Root))
    /\ [][(ElementPending /\ PendingType # PendingArray.firstElement.Type)
            => (ret'.done /\ ret'.err = ErrArrayTypeMismatch)]_vars

\* an array is about to receive a later element of another Type
C1_MismatchPending ==
    ElementPending /\ PendingType # PendingArray.firstElement.Type

\* a parse that succeeded with a setting that is an array of two elements
C1_Witness ==
    /\ ret.done /\ ret.err = ""
    /\ \E k \in DOMAIN ret.config.Root.GroupVal :
        LET v == ret.config.Root.GroupVal[k]
        IN  /\ v.Type = TypeArray
            /\ Len(v.ArrayVal) = 2

(***************************************************************************)
(* C2, C4: the kind of an integer literal                                  *)
(***************************************************************************)
IsSuffixed(s) == HasSuffix(s, "L") \/ HasSuffix(s, "l")

\* the number a Value of kind Int or Int64 holds
NumberOf(v) == IF v.Type = TypeInt THEN v.IntVal ELSE v.Int64Val

\* C2: an unsuffixed integer literal is stored as Int64 when its value lies
\* outside [-2147483648, 2147483647] and as Int when it lies inside
C2_UnsuffixedKindByRange ==
    (litResult.called /\ litResult.ok /\ ~IsSuffixed(literal))
        => (litResult.val.Type = TypeInt64
                <=> ~FitsInt32(NumberOf(parseIntegerLiteral(literal, 64).val)))

\* the literal's text without its suffix
Unsuffixed(s) == SubSeq(s, 1, Len(s) - 1)

\* C4: an integer literal that ends in L or l is stored as Int64 with the
\* value of its digits, whatever the base and however small the value
C4_SuffixForcesInt64 ==
    (litResult.called /\ litResult.ok /\ IsSuffixed(literal))
        => /\ litResult.val.Type = TypeInt64
           /\ litResult.val.Int64Val
                = NumberOf(parseIntegerLiteral(Unsuffixed(literal), 64).val)
           /\ literal = <<"4", "2", "L">>
                => litResult.val.Int64Val = Small(42)
           /\ literal = <<"0", "x", "F", "F", "L">>
                => litResult.val.Int64Val = Small(255)
           /\ literal = <<"0", "o", "7", "5", "5", "L">>
                => litResult.val.Int64Val = Small(493)

\* 0xFFL has been converted
C4_Witness ==
    /\ litResult.called /\ litResult.ok
    /\ literal = <<"0", "x", "F", "F", "L">>
    /\ litResult.val = NewInt64Value(Small(255))

(***************************************************************************)
(* C3: LookupInt on an Int64 value                                         *)
(***************************************************************************)
\* C3: LookupInt on a setting of kind Int64 returns the value when it lies
\* in [-2147483648, 2147483647] and fails with ErrIntegerOutOfRange
\* otherwise
C3_LookupIntRange ==
    LET r == Lookup(config, lookup.path)
    IN  (lookup.fn = "LookupInt" /\ r.err = "" /\ r.val.Type = TypeInt64)
            => IF FitsInt32(r.val.Int64Val)
               THEN lookup.err = "" /\ lookup.int = r.val.Int64Val
               ELSE lookup.err = ErrIntegerOutOfRange

(***************************************************************************)
(* whole files and returned Configs, for the properties of includes       *)
(***************************************************************************)
\* file holds exactly the tokens ts
FileIs(file, ts) == file \in DOMAIN fs /\ fs[file].tokens = ts \o <<EOFToken>>

\* file begins with the tokens ts
FileBegins(file, ts) ==
    /\ file \in DOMAIN fs
    /\ Len(fs[file].tokens) >= Len(ts)
    /\ SubSeq(fs[file].tokens, 1, Len(ts)) = ts

\* the call has returned, and it was made on a file that exists:
\* ParseFile of a missing file returns the error of os.Open, which names
\* the file
RootFound ==
    /\ ret.done
    /\ ~(ret.err = ErrOpenFile /\ ~fileExists(ret.args[1]))

\* the call has returned cfg and no error
Returned(cfg) ==
    /\ ret.done /\ ret.err = ""
    /\ ret.config = [isNil |-> FALSE, Root |-> NewGroupValue(cfg)]

(***************************************************************************)
(* C5: the depth limit on a chain of includes                              *)
(***************************************************************************)
\* C5: a chain of 12 files, each including the next, fails with
\* ErrIncludeDepthExceeded and a chain of 9 files parses; the longest chain
\* that parses has MaxIncludeDepth + 1 files
C5_IncludeChainDepth ==
    /\ (RootFound /\ fs = ChainFileSystem(12))
            => ret.err = ErrIncludeDepthExceeded
    /\ (RootFound /\ fs = ChainFileSystem(9))
            => Returned(<<"a">> :> NewIntValue(Small(1)))
    /\ \A n \in 1..MaxChain :
            (RootFound /\ fs = ChainFileSystem(n))
                => IF n > MaxIncludeDepth + 1
                   THEN ret.err = ErrIncludeDepthExceeded
                   ELSE ret.err = ""

\* the parse of a chain of 12 files has returned
C5_Witness ==
    /\ ret.done
    /\ fs = ChainFileSystem(12)
    /\ ret.err = ErrIncludeDepthExceeded

(***************************************************************************)
(* C6: include cycles                                                      *)
(***************************************************************************)
\* a file is being parsed while an earlier parse of it waits for an include
Cyclic ==
    \E i, j \in DOMAIN parsers : i < j /\ parsers[i].file = parsers[j].file

\* C6: a parse whose includes form a cycle terminates: the nesting of
\* parsers never passes MaxIncludeDepth + 1, every parse returns, and once
\* a file is included from within itself the parse returns
\* ErrIncludeDepthExceeded
C6_IncludeCycleTerminates ==
    /\ [](Len(parsers) <= MaxIncludeDepth + 1)
    /\ <>ret.done
    /\ Cyclic ~> (ret.done /\ ret.err = ErrIncludeDepthExceeded)

\* the cycle has been followed to the deepest parser allowed
C6_Witness == Cyclic /\ Len(parsers) = MaxIncludeDepth + 1

(***************************************************************************)
(* C7, C8: what an include and a setting change                            *)
(***************************************************************************)
\* the parser of an included file is at its EOF: its next step returns to
\* parseInclude in the including parser
IncludeReturns ==
    /\ Len(parsers) > 1
    /\ F.fn = "Parse" /\ F.pc = "loop"
    /\ P.current.Type = TokenEOF

Including == parsers[Len(parsers) - 1]

\* the group the @include being returned to was written in
TargetGroup == Top(Including.frames).group

\* group g2 is g1 with the keys of h written over it
Overwritten(g1, h, g2) ==
    /\ DOMAIN g2 = DOMAIN g1 \cup DOMAIN h
    /\ \A k \in DOMAIN h : g2[k] = h[k]
    /\ \A k \in DOMAIN g1 \ DOMAIN h : g2[k] = g1[k]

\* frame j of parser i exists before and after the step, with another group
GroupChanged(i, j) ==
    /\ i \in DOMAIN parsers /\ i \in DOMAIN parsers'
    /\ j \in DOMAIN parsers[i].frames /\ j \in DOMAIN parsers'[i].frames
    /\ parsers'[i].frames[j].group # parsers[i].frames[j].group

\* C7: in one scope settings and includes take effect in textual order,
\* the last writer of a key winning: the return of an include writes the
\* included keys over those of the scope, every other change of a scope
\* writes the setting just read over the scope, and a key set before an
\* include holds the included value, a key set after it its own
C7_TextualOrderLastWins ==
    /\ [][IncludeReturns
            => Overwritten(TargetGroup, F.group, Top(P'.frames).group)]_vars
    /\ [][\A i \in DOMAIN parsers : \A j \in DOMAIN parsers[i].frames :
            (GroupChanged(i, j) /\ ~IncludeReturns)
                => /\ parsers[i].frames[j].name # <<>>
                   /\ \E v \in {parsers'[i].frames[j].group[parsers[i].frames[j].name]} :
                        Overwritten(parsers[i].frames[j].group,
                                    parsers[i].frames[j].name :> v,
                                    parsers'[i].frames[j].group)]_vars
    /\ []((ret.done
            /\ FileIs(<<"r">>, <<TokId("a"), TokAssign, TokOne,
                                 TokInclude, TokStr("f")>>)
            /\ FileIs(<<"f">>, <<TokId("a"), TokAssign, TokStr("f")>>))
                => Returned(<<"a">> :> NewStringValue(<<"f">>)))
    /\ []((ret.done
            /\ FileIs(<<"r">>, <<TokInclude, TokStr("f"),
                                 TokId("a"), TokAssign, TokOne>>)
            /\ FileIs(<<"f">>, <<TokId("a"), TokAssign, TokStr("f")>>))
                => Returned(<<"a">> :> NewIntValue(Small(1))))

\* a = 1 followed by an include of a file that sets a = "f"
C7_Witness ==
    /\ FileIs(<<"r">>, <<TokId("a"), TokAssign, TokOne,
                         TokInclude, TokStr("f")>>)
    /\ FileIs(<<"f">>, <<TokId("a"), TokAssign, TokStr("f")>>)
    /\ Returned(<<"a">> :> NewStringValue(<<"f">>))

\* C8: an include written in a group body merges the included settings
\* into that group only: its return leaves every other frame of the
\* including parser and every parser below it as they were, and
\* a = { @include "f" } with f holding b = 1 gives a.b = 1 and no b at the
\* root
C8_IncludeInGroupOnly ==
    /\ [][(IncludeReturns /\ Top(Including.frames).fn = "parseGroup")
            => /\ Len(parsers') = Len(parsers) - 1
               /\ Pop(parsers') = Pop(Pop(parsers))
               /\ Pop(P'.frames) = Pop(Including.frames)
               /\ Top(P'.frames).fn = "parseGroup"
               /\ Overwritten(TargetGroup, F.group, Top(P'.frames).group)]_vars
    /\ []((ret.done
            /\ FileIs(<<"r">>, <<TokId("a"), TokAssign, TokLeftBrace,
                                 TokInclude, TokStr("f"), TokRightBrace>>)
            /\ FileIs(<<"f">>, <<TokId("b"), TokAssign, TokOne>>))
                => /\ Returned(<<"a">> :> NewGroupValue(<<"b">> :> NewIntValue(Small(1))))
                   /\ Lookup(ret.config.Root, <<"a", ".", "b">>).val
                        = NewIntValue(Small(1))
                   /\ Lookup(ret.config.Root, <<"b">>).err = ErrSettingNotFound)

\* a = { @include "f" } has been parsed, f holding b = 1
C8_Witness ==
    /\ FileIs(<<"r">>, <<TokId("a"), TokAssign, TokLeftBrace,
                         TokInclude, TokStr("f"), TokRightBrace>>)
    /\ FileIs(<<"f">>, <<TokId("b"), TokAssign, TokOne>>)
    /\ Returned(<<"a">> :> NewGroupValue(<<"b">> :> NewIntValue(Small(1))))

(***************************************************************************)
(* C9: no Config is returned with an error                                 *)
(***************************************************************************)
\* C9: a call that returns an error returns a nil Config, whatever was
\* parsed before the error and however deep in the includes it happened; a
\* call that returns no error returns a Config
C9_ErrorMeansNilConfig ==
    /\ (ret.done /\ ret.err # "") => ret.config = Nil
    /\ (ret.done /\ ret.err = "") => ~ret.config.isNil

\* a setting was parsed and stored before the error
C9_Witness ==
    /\ ret.done /\ ret.err = ErrExpectedAssignment /\ ret.config = Nil
    /\ FileBegins(<<"m">>, <<TokId("a"), TokAssign, TokOne, TokSemicolon,
                             TokId("b")>>)

(***************************************************************************)
(* C10: the path walked by Lookup                                          *)
(***************************************************************************)
\* the segments of a path: its longest runs of characters other than '.'
RECURSIVE Segments(_)
Segments(path) ==
    IF path = <<>> THEN <<>>
    ELSE IF Head(path) = "." THEN Segments(Tail(path))
    ELSE LET dots == {i \in 1..Len(path) : path[i] = "."}
             stop == IF dots = {} THEN Len(path) + 1
                     ELSE CHOOSE i \in dots : \A k \in dots : i <= k
         IN  <<SubSeq(path, 1, stop - 1)>>
                \o Segments(SubSeq(path, stop, Len(path)))

\* the values a walk along segs reaches from root: Reach[i] is the value
\* after i segments, ok while every segment so far named a key of a Group
Reach(root, segs) ==
    LET R[i \in 0..Len(segs)] ==
            IF i = 0 THEN [ok |-> TRUE, v |-> root]
            ELSE IF /\ R[i - 1].ok
                    /\ R[i - 1].v.Type = TypeGroup
                    /\ segs[i] \in DOMAIN R[i - 1].v.GroupVal
            THEN [ok |-> TRUE, v |-> R[i - 1].v.GroupVal[segs[i]]]
            ELSE [ok |-> FALSE, v |-> R[i - 1].v]
    IN  R

\* C10: Lookup walks the non-empty segments of the path from the root; at
\* the first segment that cannot be followed it fails with
\* ErrCannotLookupInNonGroup when the value reached is not a Group and
\* with ErrSettingNotFound when it is a Group without that key; otherwise
\* it returns the value reached, the root for a path without segments
C10_LookupPath ==
    lookup.fn = "Lookup"
        => LET segs   == Segments(lookup.path)
               R      == Reach(config, segs)
               failed == {i \in 1..Len(segs) : ~R[i].ok}
           IN  /\ IF failed = {}
                  THEN /\ lookup.err = "" /\ ~lookup.nil
                       /\ lookup.val = R[Len(segs)].v
                  ELSE LET first == CHOOSE i \in failed : \A k \in failed : i <= k
                       IN  /\ lookup.nil
                           /\ lookup.err = IF R[first - 1].v.Type # TypeGroup
                                           THEN ErrCannotLookupInNonGroup
                                           ELSE ErrSettingNotFound
               /\ (\A i \in DOMAIN lookup.path : lookup.path[i] = ".")
                    => lookup.err = "" /\ lookup.val = config

\* a..b has been looked up in a Config with a = { b = 1 }
C10_Witness ==
    /\ lookup.fn = "Lookup"
    /\ lookup.path = <<"a", ".", ".", "b">>
    /\ lookup.err = ""
    /\ lookup.val = NewIntValue(Small(1))

(***************************************************************************)
(* C11: the typed lookups check the kind of the stored value               *)
(***************************************************************************)
\* the value the path of the last call leads to: ok when every segment
\* could be followed
Stored ==
    LET segs == Segments(lookup.path)
    IN  Reach(config, segs)[Len(segs)]

\* C11: for a path that leads to a value, LookupString, LookupFloat and
\* LookupBool return the stored string, float or boolean when the value is
\* of that kind and fail with ErrNotString, ErrNotFloat or ErrNotBoolean
\* when it is of any other kind; LookupInt and LookupInt64 fail with
\* ErrNotInteger on every kind but Int and Int64; LookupInt64 on an Int
\* succeeds with the same number
C11_TypedLookupsCheckKind ==
    (lookup.fn # "" /\ Stored.ok) =>
        /\ lookup.fn = "LookupString"
            => IF Stored.v.Type = TypeString
               THEN lookup.err = "" /\ lookup.str = Stored.v.StrVal
               ELSE lookup.err = ErrNotString /\ lookup.str = <<>>
        /\ lookup.fn = "LookupFloat"
            => IF Stored.v.Type = TypeFloat
               THEN lookup.err = "" /\ lookup.float = Stored.v.FloatVal
               ELSE lookup.err = ErrNotFloat /\ lookup.float = F0
        /\ lookup.fn = "LookupBool"
            => IF Stored.v.Type = TypeBool
               THEN lookup.err = "" /\ lookup.bool = Stored.v.BoolVal
               ELSE lookup.err = ErrNotBoolean /\ lookup.bool = FALSE
        /\ (/\ lookup.fn \in {"LookupInt", "LookupInt64"}
            /\ Stored.v.Type \notin {TypeInt, TypeInt64})
            => lookup.err = ErrNotInteger /\ lookup.int = I0
        /\ (lookup.fn = "LookupInt64" /\ Stored.v.Type = TypeInt)
            => lookup.err = "" /\ lookup.int = Stored.v.IntVal

\* LookupFloat has refused the Int stored at a
C11_Witness ==
    /\ lookup.fn = "LookupFloat"
    /\ lookup.path = <<"a">>
    /\ Stored.ok
    /\ Stored.v = NewIntValue(Small(1))
    /\ lookup.err = ErrNotFloat

(***************************************************************************)
(* C12: the lookups are read-only and repeatable                           *)
(***************************************************************************)
\* C12: no step of a lookup call changes the Config, and a call made a
\* second time returns what it returned the first time
C12_LookupsReadOnly ==
    [][/\ config' = config
       /\ again'.fn # "" => again' = lookup']_vars

\* LookupInt64 has been called twice on a.b, past a first call that found
\* the number
C12_Witness ==
    /\ again.fn = "LookupInt64"
    /\ again.path = <<"a", ".", "b">>
    /\ again.err = ""
    /\ again.int = Small(1)
    /\ lookup.err = ""

(***************************************************************************)
(* C13: the position of a token                                            *)
(***************************************************************************)
\* the 1-based line and column of the k-th byte of input
LineOf(input, k) ==
    1 + Cardinality({i \in 1..(k - 1) : input[i] = LF})

ColumnOf(input, k) ==
    LET breaks == {i \in 1..(k - 1) : input[i] = LF}
    IN  IF breaks = {} THEN k
        ELSE k - (CHOOSE i \in breaks : \A j \in breaks : j <= i)

\* the step is a pass of tokenize that appends a token other than EOF
AppendsToken ==
    /\ lexer.pc = "tokenize"
    /\ Len(lexer'.tokens) = Len(lexer.tokens) + 1
    /\ Top(lexer'.tokens).Type # TokenEOF

\* the 1-based offset of the first character of the token a pass appends:
\* where the whitespace before it ends
TokenStart == skipWhitespace(lexer).pos + 1

\* C13: the Line and Column of every token are the 1-based line and column
\* of the token's first character, whitespace, newlines or comments before
\* it or not
C13_TokenPosition ==
    [][AppendsToken =>
          /\ Top(lexer'.tokens).Line = LineOf(lexer.input, TokenStart)
          /\ Top(lexer'.tokens).Column = ColumnOf(lexer.input, TokenStart)]_vars

(***************************************************************************)
(* C14: the error of the README's example                                  *)
(***************************************************************************)
\* the text of the README's error example
InvalidSyntaxHere ==
    Bytes(<<"i", "n", "v", "a", "l", "i", "d", " ", "s", "y", "n", "t",
            "a", "x", " ", "h", "e", "r", "e">>)

\* the step is the one in which the parse of the Reader's text returns
ParseEnds == ~ret.done /\ ret'.done

\* C14: ParseString on the text "invalid syntax here" fails with the error
\* "expected identifier at line 1, column 15": the error is
\* ErrExpectedIdentifier and the token the parser stands on, whose
\* position the message gives, has Line 1 and Column 15
C14_InvalidSyntaxMessage ==
    [][(ParseEnds /\ reader.text = InvalidSyntaxHere /\ ~reader.fails) =>
          /\ ret'.err = ErrExpectedIdentifier
          /\ P.current.Line = 1
          /\ P.current.Column = 15]_vars

(***************************************************************************)
(* C20: a Reader that fails                                                *)
(***************************************************************************)
\* C20: when the Reader returns an error the lexer holds the empty input,
\* and the parse made on that lexer fails with an error
C20_ReaderErrorFailsParse ==
    (reader.fails /\ ret.done) => (lexer.input = <<>> /\ ret.err # "")

(***************************************************************************)
(* C15: the hexadecimal escapes                                            *)
(***************************************************************************)
\* the lexer has finished on the Reader's text, which it could read
Tokenized == lexer.pc = "done" /\ ~reader.fails

\* the code HH that the input "\xHH" spells
SpelledCode == 16 * HexValue(reader.text[4]) + HexValue(reader.text[5])

\* C15: for every HH from 00 to FF the string literal "\xHH" decodes to
\* exactly one character, the one with code HH (as the byte HH or as the
\* UTF-8 encoding of the rune HH)
C15_HexEscapeDecodes ==
    (Tokenized /\ reader.text \in HexEscapes) =>
        /\ lexer.tokens[1].Type = TokenString
        /\ lexer.tokens[1].Value \in {<<SpelledCode>>, WriteRune(SpelledCode)}

(***************************************************************************)
(* C16: the escapes of the regular expression of the tests                 *)
(***************************************************************************)
\* the input of TestEscapeSequenceInRegex and the string it expects
RegexInput ==
    Bytes(<<"t", "e", "s", "t", "_", "p", "a", "t", "t", "e", "r", "n",
            " ", "=", " ", "\"", "\\", "/", "\\", "*", "\\", "s", "*", "d",
            "d", "e", "=", "'", "(", "[", "^", "*", "]", "|", "\\", "*",
            "[", "^", "\\", "/", "]", "|", ")", "*", "\\", "*", "\\", "/",
            "\\", "s", "*", "$", "\"", ";">>)

RegexExpected ==
    Bytes(<<"/", "\\", "*", "\\", "s", "*", "d", "d", "e", "=", "'", "(",
            "[", "^", "*", "]", "|", "\\", "*", "[", "^", "/", "]", "|",
            ")", "*", "\\", "*", "/", "\\", "s", "*", "$">>)

\* C16: in a string literal \/ decodes to / while \* and \s keep their
\* backslash: the literal of RegexInput is the string RegexExpected
C16_RegexEscapesKept ==
    (Tokenized /\ reader.text = RegexInput) =>
        /\ lexer.tokens[3].Type = TokenString
        /\ lexer.tokens[3].Value = RegexExpected

(***************************************************************************)
(* C17: the escapes readString does not know                               *)
(***************************************************************************)
\* the characters that readString gives a meaning after a backslash
KnownEscapes == DOMAIN Escapes \cup {Code("x")}

\* C17: a backslash followed by a character that is none of
\* n r t b f a v \ " x decodes to that character, unchanged, the backslash
\* dropped
C17_UnknownEscapeKeepsCharacter ==
    (/\ Tokenized
     /\ reader.text \in CharEscapes
     /\ reader.text[3] \notin KnownEscapes) =>
        /\ lexer.tokens[1].Type = TokenString
        /\ lexer.tokens[1].Value = <<reader.text[3]>>

(***************************************************************************)
(* C18: the end-of-input token                                             *)
(***************************************************************************)
\* tokens ends with an EOF token and holds no other
ExactlyOneEOF(tokens) ==
    /\ Len(tokens) >= 1
    /\ \A i \in DOMAIN tokens : (tokens[i].Type = TokenEOF) <=> (i = Len(tokens))

\* C18: the token list of a finished lexer, also of one whose Reader
\* failed, ends with exactly one EOF token and holds no other; a NextToken
\* or PeekToken call made with the cursor past that token returns an EOF
\* token; PeekToken does not move the cursor, and the NextToken call after
\* a PeekToken returns the token PeekToken returned
C18_EndOfInputToken ==
    [][/\ lexer'.pc = "done" => ExactlyOneEOF(lexer'.tokens)
       /\ (lexer.pc = "done" /\ lexer.tokenPos >= Len(lexer.tokens))
            => got'.token.Type = TokenEOF
       /\ (lexer.pc = "done" /\ got'.fn = "PeekToken")
            => lexer'.tokenPos = lexer.tokenPos
       /\ (got.fn = "PeekToken" /\ got'.fn = "NextToken")
            => got'.token = got.token]_vars

\* on the lexer of a Reader that failed, PeekToken has been called with the
\* cursor past the EOF token
C18_Witness ==
    /\ reader.fails
    /\ lexer.pc = "done"
    /\ lexer.tokenPos = Len(lexer.tokens)
    /\ got.fn = "PeekToken"
    /\ got.token.Type = TokenEOF

(***************************************************************************)
(* C19: characters that begin no token                                     *)
(***************************************************************************)
\* r, followed by next, is no whitespace and begins no comment and no token
BadCharacter(r, next) ==
    /\ ~IsSpace(r)
    /\ r \notin DOMAIN Punctuation \cup {Code("\""), Code("@"), Code("#")}
    /\ ~(r = Code("/") /\ next \in {Code("/"), Code("*")})
    /\ ~IsDigitRune(r)
    /\ ~(r = Code("-") /\ IsDigitRune(next))
    /\ ~IsLetter(r)
    /\ r \notin {Code("_"), Code("*")}

\* the lexer l stands on a byte of its input that it has not consumed
StandsOnInput(l) == Len(l.input) > 0 /\ l.current = l.input[l.pos + 1]

\* a pass of tokenize is due, and the first byte after the whitespace is a
\* bad character
AtBadCharacter ==
    /\ lexer.pc = "tokenize"
    /\ StandsOnInput(skipWhitespace(lexer))
    /\ BadCharacter(skipWhitespace(lexer).current, peek(skipWhitespace(lexer)))

\* C19: lexing ends for every input, and it does not end at a bad
\* character: the pass at a bad character appends one ERROR token that
\* holds exactly that character and tokenize goes on with the rest
C19_BadCharacterYieldsError ==
    /\ <>(lexer.pc = "done")
    /\ [][AtBadCharacter =>
            /\ lexer'.pc = "tokenize"
            /\ Len(lexer'.tokens) = Len(lexer.tokens) + 1
            /\ Top(lexer'.tokens).Type = TokenError
            /\ Top(lexer'.tokens).Value = <<skipWhitespace(lexer).current>>
            /\ lexer'.pos = skipWhitespace(lexer).pos + 1
                  \/ skipWhitespace(lexer).pos = Len(lexer.input) - 1]_vars

(***************************************************************************)
(* C21: the paths an include is looked up at                               *)
(***************************************************************************)
\* the running parser has read an include directive and is about to look
\* its path up
Resolving == At({"Parse", "parseGroup"}, {"incResolve"})

\* the include path joined to the running parser's base directory
Joined == Join(P.baseDir, F.includePath)

\* the step uses the file or directory at path: it starts a parser on it,
\* or fails because the file cannot be opened
Opens(path) ==
    IF FileIn(fs, Resolve(path)).readable
    THEN /\ Len(parsers') = Len(parsers) + 1
         /\ Top(parsers').file = Resolve(path)
    ELSE ret'.done /\ ret'.err = ErrOpenFile

\* the parse of p in directory dir, next to the files S, has returned
ResolvedIn(dir, S) ==
    /\ RootFound
    /\ fs \in ResolveFileSystemsIn(dir)
    /\ DOMAIN fs \cap Candidates(dir, <<"f">>) = S

\* the parse of d/p, which includes path and then sets b, next to f and
\* d/f, has returned
UncleanIn(path) ==
    /\ RootFound
    /\ fs \in UncleanFileSystems
    /\ FileBegins(<<"d", "/", "p">>, IncludeTokens(path))

\* b = 1, and a = "<path>" before it
AfterInclude(path) ==
    (<<"a">> :> NewStringValue(path)) @@ (<<"b">> :> NewIntValue(Small(1)))

\* C21: an include path P is tried as P, P.cnf and P.cfg in this order,
\* each joined to the base directory, and the first that exists is the
\* file parsed; when none exists the parse fails with
\* ErrIncludeFileNotFound and the message holds P and the three paths.
\* The join cleans the path: "../f" written in d/p is f, "./f" and
\* "e/../f" are d/f, and the empty path is the directory d, which exists
\* and reads as an empty file
C21_IncludePathResolution ==
    /\ [][Resolving =>
            IF fileExists(Joined) THEN Opens(Joined)
            ELSE IF fileExists(Joined \o Cnf) THEN Opens(Joined \o Cnf)
            ELSE IF fileExists(Joined \o Cfg) THEN Opens(Joined \o Cfg)
            ELSE /\ ret'.done
                 /\ ret'.config = Nil
                 /\ ret'.err = ErrIncludeFileNotFound
                 /\ ret'.args = <<F.includePath,
                                  <<Joined, Joined \o Cnf, Joined \o Cfg>>>>]_vars
    /\ [](\A dir \in RootDirs :
            LET f == Join(dir, <<"f">>)
            IN  /\ \A S \in SUBSET {f \o Cnf, f \o Cfg} :
                    ResolvedIn(dir, {f} \cup S)
                        => Returned(<<"a">> :> NewStringValue(f))
                /\ \A S \in SUBSET {f \o Cfg} :
                    ResolvedIn(dir, {f \o Cnf} \cup S)
                        => Returned(<<"a">> :> NewStringValue(f \o Cnf))
                /\ ResolvedIn(dir, {f \o Cfg})
                        => Returned(<<"a">> :> NewStringValue(f \o Cfg))
                /\ ResolvedIn(dir, {})
                        => ret.err = ErrIncludeFileNotFound)
    /\ [](/\ UncleanIn(<<".", ".", "/", "f">>)
                => Returned(AfterInclude(<<"f">>))
          /\ \A path \in {<<".", "/", "f">>, <<"e", "/", ".", ".", "/", "f">>,
                           <<"/", "f">>, <<"f", "/">>} :
                UncleanIn(path) => Returned(AfterInclude(<<"d", "/", "f">>))
          /\ \A path \in {<<>>, <<".", ".">>} :
                UncleanIn(path)
                    => Returned(<<"b">> :> NewIntValue(Small(1)))
          /\ UncleanIn(<<"d", "/", "/", "f">>)
                => /\ ret.err = ErrIncludeFileNotFound
                   /\ ret.args = <<<<"d", "/", "/", "f">>,
                                   <<<<"d", "/", "d", "/", "f">>,
                                     <<"d", "/", "d", "/", "f">> \o Cnf,
                                     <<"d", "/", "d", "/", "f">> \o Cfg>>>>)

\* d/p includes "f" where d/f.cnf and d/f.cfg exist and d/f does not, and
\* the settings of d/f.cnf came back
C21_Witness ==
    /\ ResolvedIn(<<"d">>, {<<"d", "/", "f">> \o Cnf, <<"d", "/", "f">> \o Cfg})
    /\ Returned(<<"a">> :> NewStringValue(<<"d", "/", "f">> \o Cnf))

(***************************************************************************)
(* C22: the base directory of a nested include                             *)
(***************************************************************************)
\* the parse of p, which includes d/x, which includes "y", has returned,
\* the files S being those of y, d/y and d/y.cfg that exist
NestedIn(S) ==
    /\ RootFound
    /\ fs \in NestedFileSystems
    /\ DOMAIN fs \ {<<"p">>, <<"d", "/", "x">>} = S

\* C22: every parser resolves its includes against the directory of the
\* file it parses: an include of "y" written in d/x, itself included from
\* p in the working directory, means d/y (or d/y.cfg), whether or not a
\* file y exists next to p, and fails when only that y exists
C22_NestedIncludeBaseDir ==
    /\ \A i \in DOMAIN parsers : parsers[i].baseDir = Dir(parsers[i].file)
    /\ \A S \in SUBSET {<<"y">>, <<"d", "/", "y">> \o Cfg} :
            NestedIn({<<"d", "/", "y">>} \cup S)
                => Returned(<<"a">> :> NewStringValue(<<"d", "/", "y">>))
    /\ \A S \in SUBSET {<<"y">>} :
        /\ NestedIn({<<"d", "/", "y">> \o Cfg} \cup S)
                => Returned(<<"a">> :> NewStringValue(<<"d", "/", "y">> \o Cfg))
        /\ NestedIn(S)
                => /\ ret.err = ErrIncludeFileNotFound
                   /\ ret.args = <<<<"y">>, <<<<"d", "/", "y">>,
                                              <<"d", "/", "y">> \o Cnf,
                                              <<"d", "/", "y">> \o Cfg>>>>

\* y exists next to p and d/y next to d/x, and the settings of d/y came
\* back
C22_Witness ==
    /\ NestedIn({<<"y">>, <<"d", "/", "y">>})
    /\ Returned(<<"a">> :> NewStringValue(<<"d", "/", "y">>))

(***************************************************************************)
(* C23: structures left open at the end of the input                       *)
(***************************************************************************)
\* the running parser is at EOF inside a group, array or list
OpenAtEOF ==
    /\ parsers # <<>>
    /\ F.fn \in {"parseGroup", "parseArray", "parseList"}
    /\ P.current.Type = TokenEOF

\* the parser is where the structure needs its closing token or a value
NeedsMore == F.pc \in {"loop", "open", "afterComma"}

Openers == {TokenLeftBrace, TokenLeftBracket, TokenLeftParen}

Closers == {TokenRightBrace, TokenRightBracket, TokenRightParen}

\* the opening tokens of tokens less its closing tokens
RECURSIVE Unclosed(_)
Unclosed(tokens) ==
    IF tokens = <<>> THEN 0
    ELSE Unclosed(Tail(tokens))
            + (IF Head(tokens).Type \in Openers THEN 1
               ELSE IF Head(tokens).Type \in Closers THEN -1 ELSE 0)

\* C23: a group, array or list still open at EOF is never accepted: from
\* EOF inside one no frame returns, the step that needs the closing token
\* or a value ends the parse with a syntax error, a parse that ends there
\* ends with an error and no Config, and a file parsed without error
\* closes all it opens
C23_UnclosedFails ==
    /\ [][OpenAtEOF =>
            IF ret'.done THEN ret'.err # "" /\ ret'.config = Nil
            ELSE /\ Len(parsers') >= Len(parsers)
                 /\ Len(parsers'[Len(parsers)].frames) = Len(P.frames)]_vars
    /\ [][(OpenAtEOF /\ NeedsMore) =>
            /\ ret'.done
            /\ ret'.err \in {ErrExpectedToken, ErrUnexpectedToken}]_vars
    /\ []((ret.done /\ ret.err = "" /\ <<"m">> \in DOMAIN fs)
            => /\ fs[<<"m">>].complete
               /\ Unclosed(fs[<<"m">>].tokens) = 0)

\* a = { b = 1 and the end of the input
C23_Witness ==
    /\ FileIs(<<"m">>, <<TokId("a"), TokAssign, TokLeftBrace,
                         TokId("b"), TokAssign, TokOne>>)
    /\ ret.done
    /\ ret.err = ErrExpectedToken
    /\ ret.config = Nil

(***************************************************************************)
(* C24: adjacent strings                                                   *)
(***************************************************************************)
\* the first token of the run of STRING tokens that ends at token k
RunStart(tokens, k) ==
    CHOOSE i \in 1..k :
        /\ \A j \in i..k : tokens[j].Type = TokenString
        /\ i = 1 \/ tokens[i - 1].Type # TokenString

\* the decoded contents of the tokens i..k, joined in order
RECURSIVE Contents(_, _, _)
Contents(tokens, i, k) ==
    IF i > k THEN <<>>
    ELSE tokens[i].Value \o Contents(tokens, i + 1, k)

\* the running parser is in the concatenation loop of parseValue
Concatenating ==
    At({"Parse", "parseGroup", "parseArray", "parseList"}, {"strcat"})

\* the tokens that the running parser reads: the ones its lexer made of
\* the Reader, or the ones of its file
TokensRead ==
    IF P.file = ReaderFile THEN ParserTokens(lexer.tokens)
    ELSE FileIn(fs, P.file).tokens

\* the contents of the STRING tokens of the run read so far
RunRead ==
    Contents(TokensRead, RunStart(TokensRead, P.tokenPos - 1),
             P.tokenPos - 1)

\* the text "x", a line feed, "Ayz"
ConcatExpected == Chars(Bytes(<<"x">>) \o <<LF>> \o Bytes(<<"A", "y", "z">>))

\* C24: a run of adjacent STRING tokens in value position parses to one
\* String value, the contents of the tokens as the lexer decoded them
\* joined in order with nothing between them: the string being built is
\* always the join of the tokens of the run read so far, the token after
\* the run makes it the value of the setting or the next element, and
\* s = "x\n" "" "\x41y" "z"; t = [ "a" "b", "" "" ]; gives s the five
\* characters x, line feed, A, y, z and t the strings "ab" and ""
C24_AdjacentStringsJoin ==
    /\ [](Concatenating =>
            /\ P.tokenPos >= 2
            /\ TokensRead[P.tokenPos - 1].Type = TokenString
            /\ F.value = RunRead)
    /\ [][(Concatenating /\ P.current.Type # TokenString) =>
            IF ret'.done THEN ret'.err = ErrArrayTypeMismatch
            ELSE IF IsGroupLike(F)
            THEN Top(P'.frames).group
                    = Put(F.group, F.name, NewStringValue(RunRead))
            ELSE Top(P'.frames).elements
                    = Append(F.elements, NewStringValue(RunRead))]_vars
    /\ []((ret.done /\ reader.text = ConcatText) =>
            Returned((<<"s">> :> NewStringValue(ConcatExpected))
                     @@ (<<"t">> :> NewArrayValue(
                            <<NewStringValue(<<"a", "b">>),
                              NewStringValue(<<>>)>>))))

\* the text with the four adjacent strings has been parsed
C24_Witness ==
    /\ reader.text = ConcatText
    /\ Returned((<<"s">> :> NewStringValue(ConcatExpected))
                @@ (<<"t">> :> NewArrayValue(<<NewStringValue(<<"a", "b">>),
                                               NewStringValue(<<>>)>>)))

(***************************************************************************)
(* C25: the trailing comma of arrays and lists                             *)
(***************************************************************************)
\* the opening token that the closing token at k closes: the first
\* opening token met going back from i that closes nothing in between
RECURSIVE OpenerOf(_, _, _)
OpenerOf(tokens, i, depth) ==
    IF i = 0 THEN 0
    ELSE IF tokens[i].Type \in Closers THEN OpenerOf(tokens, i - 1, depth + 1)
    ELSE IF tokens[i].Type \in Openers
    THEN IF depth = 0 THEN i ELSE OpenerOf(tokens, i - 1, depth - 1)
    ELSE OpenerOf(tokens, i - 1, depth)

\* the commas of tokens[i..k] that are in no nested group, array or list
RECURSIVE CommasAt(_, _, _, _)
CommasAt(tokens, i, k, depth) ==
    IF i > k THEN 0
    ELSE IF tokens[i].Type \in Openers
    THEN CommasAt(tokens, i + 1, k, depth + 1)
    ELSE IF tokens[i].Type \in Closers
    THEN CommasAt(tokens, i + 1, k, depth - 1)
    ELSE CommasAt(tokens, i + 1, k, depth)
            + (IF tokens[i].Type = TokenComma /\ depth = 0 THEN 1 ELSE 0)

\* the values written between the opening token at o and the closing
\* token at k: one more than the commas that separate them, a trailing
\* comma separating nothing
ValuesWritten(tokens, o, k) ==
    IF k = o + 1 THEN 0
    ELSE IF tokens[k - 1].Type = TokenComma
    THEN CommasAt(tokens, o + 1, k - 1, 0)
    ELSE CommasAt(tokens, o + 1, k - 1, 0) + 1

\* the running parser is at the token that closes its array or list
Closing ==
    /\ At({"parseArray", "parseList"}, {"open", "loop", "afterComma"})
    /\ P.current.Type = Closer(F)

\* the frame the array or list is returned to
Below == P.frames[Len(P.frames) - 1]

\* the step hands v to the frame below: as the value of the setting being
\* parsed or as the next element
Delivered(v) ==
    IF IsGroupLike(Below)
    THEN Top(P'.frames).group = Put(Below.group, Below.name, v)
    ELSE Top(P'.frames).elements = Append(Below.elements, v)

\* C25: a comma before the closing ] or ) is accepted and adds no element:
\* at its closing token an array or list holds as many elements as values
\* were written, with or without the comma, these elements are what it
\* returns, and a = [ "f", "f", ] has two elements
C25_TrailingCommaIgnored ==
    /\ [](Closing =>
            Len(F.elements)
                = ValuesWritten(TokensRead,
                                OpenerOf(TokensRead, P.tokenPos - 1, 0),
                                P.tokenPos))
    /\ [][Closing =>
            IF ret'.done THEN ret'.err = ErrArrayTypeMismatch
            ELSE Delivered(SequenceValue(F))]_vars
    /\ []((ret.done
            /\ FileIs(<<"m">>, <<TokId("a"), TokAssign,
                                 Token(TokenLeftBracket, <<"[">>),
                                 TokStr("f"), Token(TokenComma, <<",">>),
                                 TokStr("f"), Token(TokenComma, <<",">>),
                                 Token(TokenRightBracket, <<"]">>)>>))
            => Returned(<<"a">> :> NewArrayValue(<<NewStringValue(<<"f">>),
                                                   NewStringValue(<<"f">>)>>)))

\* a = [ "f", "f", ] has been parsed
C25_Witness ==
    /\ FileIs(<<"m">>, <<TokId("a"), TokAssign,
                         Token(TokenLeftBracket, <<"[">>),
                         TokStr("f"), Token(TokenComma, <<",">>),
                         TokStr("f"), Token(TokenComma, <<",">>),
                         Token(TokenRightBracket, <<"]">>)>>)
    /\ Returned(<<"a">> :> NewArrayValue(<<NewStringValue(<<"f">>),
                                           NewStringValue(<<"f">>)>>))

(***************************************************************************)
(* C26: integers written with a base prefix                                *)
(***************************************************************************)
Numerals ==
    <<"0", "1", "2", "3", "4", "5", "6", "7", "8", "9",
      "a", "b", "c", "d", "e", "f">>

Capitals ==
    <<"0", "1", "2", "3", "4", "5", "6", "7", "8", "9",
      "A", "B", "C", "D", "E", "F">>

\* c is a digit of the base, in either case
IsNumeralOf(c, base) ==
    \E i \in 1..base : Numerals[i] = c \/ Capitals[i] = c

NumeralValue(c) ==
    (CHOOSE i \in 1..16 : Numerals[i] = c \/ Capitals[i] = c) - 1

\* the number the digits spell in the base
RECURSIVE ValueInBase(_, _)
ValueInBase(digits, base) ==
    IF digits = <<>> THEN 0
    ELSE ValueInBase(SubSeq(digits, 1, Len(digits) - 1), base) * base
            + NumeralValue(digits[Len(digits)])

\* the text is a=0<letter><digits>; with at least one digit, all of them
\* digits of the letter's base
PrefixedSetting(text) ==
    /\ Len(text) >= 6
    /\ SubSeq(text, 1, 3) = Bytes(<<"a", "=", "0">>)
    /\ CharOf(text[4]) \in PrefixLetters
    /\ text[Len(text)] = Code(";")
    /\ \A i \in 5..(Len(text) - 1) :
            IsNumeralOf(CharOf(text[i]), BaseOf(CharOf(text[4])))

\* the number its digits spell
SettingNumber(text) ==
    ValueInBase(Chars(SubSeq(text, 5, Len(text) - 1)), BaseOf(CharOf(text[4])))

IntSetting(name, n) == <<name>> :> NewIntValue(Small(n))

\* C26: an integer written 0x, 0b, 0o or 0q and digits of base 16, 2 or 8
\* is stored with the value its digits spell in that base, whatever the
\* case of the prefix letter and of the hexadecimal digits; 0xFF, 0b1010
\* and 0o755 and their variants 0XfF, 0B1010, 0O755, 0q755 and 0Q755 give
\* 255, 10 and 493
C26_PrefixedIntegers ==
    /\ (ret.done /\ PrefixedSetting(reader.text))
            => Returned(IntSetting("a", SettingNumber(reader.text)))
    /\ (ret.done /\ reader.text = PrefixedText)
            => Returned(IntSetting("a", 255) @@ IntSetting("b", 10)
                        @@ IntSetting("c", 493) @@ IntSetting("d", 255)
                        @@ IntSetting("e", 10) @@ IntSetting("f", 493)
                        @@ IntSetting("g", 493) @@ IntSetting("h", 493))

\* a=0XaF; has been parsed: a is 175
C26_Witness ==
    /\ reader.text = Bytes(<<"a", "=", "0", "X", "a", "F", ";">>)
    /\ Returned(IntSetting("a", 175))

(***************************************************************************)
(* C27: the include depth of every parser                                  *)
(***************************************************************************)
\* the running parser is at an @include directive
AtInclude ==
    /\ At({"Parse", "parseGroup"}, {"loop"})
    /\ P.current.Type = TokenInclude

\* C27: throughout a parse the parser of the file parsed has includeDepth
\* 0 and the parser of an included file its includer's includeDepth plus
\* 1, none above 10; a parser at depth 10 that meets @include returns
\* ErrIncludeDepthExceeded from that very step, with the directive's path
\* not read and the file system not touched
C27_IncludeDepthRange ==
    /\ [](\A i \in DOMAIN parsers :
            /\ parsers[i].includeDepth \in 0..MaxIncludeDepth
            /\ parsers[i].includeDepth = i - 1)
    /\ [][(AtInclude /\ P.includeDepth = MaxIncludeDepth) =>
            /\ ret'.done
            /\ ret'.config = Nil
            /\ ret'.err = ErrIncludeDepthExceeded
            /\ F.includePath = <<>>
            /\ fs' = fs]_vars
    /\ [][(AtInclude /\ P.includeDepth < MaxIncludeDepth) =>
            ~(ret'.done /\ ret'.err = ErrIncludeDepthExceeded)]_vars

\* eleven parsers are nested and the innermost, at depth 10, is at an
\* @include directive
C27_Witness ==
    /\ Len(parsers) = MaxIncludeDepth + 1
    /\ AtInclude
    /\ P.includeDepth = MaxIncludeDepth

(***************************************************************************)
(* C28: the merge of an include is shallow                                 *)
(***************************************************************************)
\* the group g of the included file f: a = "f"
IncludedGroup == NewGroupValue(<<"a">> :> NewStringValue(<<"f">>))

\* the parse of a file of the file system has returned
Parsed(fsys) == RootFound /\ fs = fsys

\* the file systems in which p sets g = { a = 1; b = 1; } before it
\* includes f: at the top level and inside the group h
ShallowAtTop ==
    CHOOSE fsys \in ShallowFileSystems :
        fsys[<<"p">>].tokens[1] = TokId("g")

ShallowInGroup ==
    CHOOSE fsys \in ShallowFileSystems :
        fsys[<<"p">>].tokens[1] = TokId("h")

\* C28: the merge of an include is shallow: a group that the scope of the
\* directive and the included file both define is, once the include
\* returns, exactly the included file's group, with none of the members
\* only the earlier group had; g = { a = 1; b = 1; } followed by an
\* include of a file with g = { a = "f"; } leaves g = { a = "f" }
C28_ShallowMerge ==
    /\ [][IncludeReturns =>
            \A k \in DOMAIN TargetGroup \cap DOMAIN F.group :
                /\ Top(P'.frames).group[k] = F.group[k]
                /\ (TargetGroup[k].Type = TypeGroup
                        /\ F.group[k].Type = TypeGroup)
                    => DOMAIN Top(P'.frames).group[k].GroupVal
                            = DOMAIN F.group[k].GroupVal]_vars
    /\ [](Parsed(ShallowAtTop) =>
            /\ Returned(<<"g">> :> IncludedGroup)
            /\ Lookup(ret.config.Root, <<"g", ".", "b">>).err
                    = ErrSettingNotFound)
    /\ [](Parsed(ShallowInGroup) =>
            Returned(<<"h">> :> NewGroupValue(<<"g">> :> IncludedGroup)))

\* g = { a = 1; b = 1; } followed by the include has been parsed, and g
\* holds a = "f" only
C28_Witness ==
    /\ Parsed(ShallowAtTop)
    /\ Returned(<<"g">> :> IncludedGroup)

(***************************************************************************)
(* C30: the include depth counts nesting, not includes                     *)
(***************************************************************************)
\* C30: a parser's includeDepth never changes: it is the same after each
\* @include it processes has returned, so any number of directives one
\* after another, each of a file that includes nothing, parses; p with
\* 1 to MaxSequential includes of l gives the settings of l
C30_DepthCountsNesting ==
    /\ [][\A i \in DOMAIN parsers :
            i \in DOMAIN parsers'
                => parsers'[i].includeDepth = parsers[i].includeDepth]_vars
    /\ [][IncludeReturns =>
            /\ Len(parsers') = Len(parsers) - 1
            /\ P'.includeDepth = Including.includeDepth]_vars
    /\ [](\A n \in 1..MaxSequential :
            Parsed(SequentialFileSystem(n))
                => Returned(<<"a">> :> NewStringValue(<<"l">>)))

\* the twelfth include of l in one file returns to a parser at depth 0
C30_Witness ==
    /\ fs = SequentialFileSystem(MaxSequential)
    /\ Len(parsers) = 1
    /\ P.includeDepth = 0
    /\ P.tokenPos = Len(fs[<<"p">>].tokens)
    /\ P.current.Type = TokenEOF
    /\ F.group = (<<"a">> :> NewStringValue(<<"l">>))

(***************************************************************************)
(* C29: strings with no closing quote                                      *)
(***************************************************************************)
\* the offset of the quote that closes the string whose contents start at
\* offset i: the first quote that no backslash escapes; 0 when there is
\* none
RECURSIVE ClosingQuote(_, _)
ClosingQuote(input, i) ==
    IF i > Len(input) THEN 0
    ELSE IF input[i] = Code("\"") THEN i
    ELSE IF input[i] = Code("\\") THEN ClosingQuote(input, i + 2)
    ELSE ClosingQuote(input, i + 1)

\* the lexer s, past the whitespace, stands on the opening quote of a
\* string that is never closed
Unterminated(s) ==
    /\ StandsOnInput(s)
    /\ s.current = Code("\"")
    /\ ClosingQuote(s.input, s.pos + 2) = 0

\* the bytes input[i..] up to the end of the input as the lexer sees it,
\* a NUL byte or the last byte, as readString writes them
RECURSIVE WrittenFrom(_, _)
WrittenFrom(input, i) ==
    IF i > Len(input) \/ input[i] = NUL THEN <<>>
    ELSE WriteRune(input[i]) \o WrittenFrom(input, i + 1)

NoBackslashFrom(input, i) ==
    \A j \in i..Len(input) : input[j] # Code("\\")

\* the pass of tokenize from l to n at a string that is never closed
\* emits one STRING token and leaves the lexer at its end of input; the
\* token holds the rest of the input when no escape is in it; and tokens
\* is what was emitted followed by EOF alone
UnterminatedPass(l, n, tokens) ==
    LET s == skipWhitespace(l)
    IN  /\ Len(n.tokens) = Len(l.tokens) + 1
        /\ Top(n.tokens).Type = TokenString
        /\ n.current = NUL
        /\ NoBackslashFrom(s.input, s.pos + 2)
            => Top(n.tokens).Value = WrittenFrom(s.input, s.pos + 2)
        /\ Len(tokens) = Len(n.tokens) + 1
        /\ SubSeq(tokens, 1, Len(n.tokens)) = n.tokens
        /\ Top(tokens).Type = TokenEOF
        /\ \A i \in (Len(l.tokens) + 1)..Len(tokens) :
                tokens[i].Type # TokenError

\* every pass of tokenize from l on that meets a string that is never
\* closed is an UnterminatedPass
RECURSIVE UnterminatedHandled(_, _)
UnterminatedHandled(l, tokens) ==
    IF l.current = NUL THEN TRUE
    ELSE /\ Unterminated(skipWhitespace(l))
            => UnterminatedPass(l, TokenizePass(l), tokens)
         /\ UnterminatedHandled(TokenizePass(l), tokens)

\* C29: a string literal with no closing quote takes the rest of the input
\* (up to the lexer's end of input) and comes out as one STRING token
\* followed by EOF alone, with no ERROR token, and the parser takes it as
\* any other string: name = "abc parses with name equal to "abc"
C29_UnterminatedStringAccepted ==
    /\ (lexer.pc = "done" /\ ~reader.fails)
            => UnterminatedHandled(NewLexerOf(reader), lexer.tokens)
    /\ (ret.done /\ reader.text = UnterminatedText)
            => Returned(<<"n", "a", "m", "e">> :> NewStringValue(<<"a", "b", "c">>))
    /\ (ret.done /\ reader.text = Bytes(<<"a", "=", "\"", "1">>))
            => Returned(<<"a">> :> NewStringValue(<<"1">>))
    /\ (ret.done /\ reader.text = Bytes(<<"a", " ", "=", " ", "\"", "b", "\"", " ", "\"", "c">>))
            => Returned(<<"a">> :> NewStringValue(<<"b", "c">>))

\* name = "abc has been parsed
C29_Witness ==
    /\ reader.text = UnterminatedText
    /\ Returned(<<"n", "a", "m", "e">> :> NewStringValue(<<"a", "b", "c">>))

=============================================================================
